---- MODULE Spec2Model ----
(***************************************************************************)
(* DegenBot-CE: the request lifecycle of the /degenme overlay command.     *)
(*                                                                         *)
(* Tasks (src/main.rs): the dispatcher's message_handler activations, the  *)
(* queue consumer (process_queue), the expiry sweeper and the clock.       *)
(* Shared state: the rate buckets, the pending-overlay table (behind one   *)
(* tokio Mutex), the photo queue.  A task is pre-empted only at an .await. *)
(* An action runs one task over the code between two points where another  *)
(* task can observe or change shared state; a stretch of awaits that       *)
(* touches task-local state only is one action.  Every transport call      *)
(* either succeeds or fails (chosen by the environment) and is recorded in *)
(* the calling task's call log.  Telegram delivers a photo message with a  *)
(* non-empty size list, so msg.photo().last() is Some for a queued photo.  *)
(***************************************************************************)
EXTENDS Integers, Sequences, FiniteSets, TLC

\* ------------------------------------------------------------------ bounds
NumUsers == 2
MaxCommands == 1
MaxPhotos == 1
MaxBurst == 4
MaxPrompts == 2
MaxReplies == 2
MaxTime == 181
MaxChecks == 10
MaxDim == 2

\* ------------------------------------------------------- program constants
MAX_REQUESTS == 5
TIME_WINDOW == 60
OVERLAY_EXPIRATION == 180
MAX_RETRIES == 3

\* ------------------------------------------------------ environment inputs
Chat == 1
Users == 1..NumUsers
Handlers == {"h1"}
\* the activations of message_handler that can be in progress together
Activations == {"h1", "h2"}
WindowSteps == {60, 61}
ExpirySteps == {180, 181}

None == <<>>
Some(x) == <<x>>
Unwrap(o) == o[1]

\* Option<UserId>::unwrap_or(UserId(0))
UnwrapOrZero(o) == IF o = None THEN 0 ELSE Unwrap(o)

TxtStart == <<"/", "s", "t", "a", "r", "t">>
TxtDegenme == <<"/", "d", "e", "g", "e", "n", "m", "e">>
TxtHelp == <<"/", "h", "e", "l", "p">>
TxtStartup == <<"/", "s", "t", "a", "r", "t", "u", "p">>
Texts == {TxtStart, TxtDegenme, TxtHelp, TxtStartup}

\* str::starts_with
StartsWith(t, p) == Len(t) >= Len(p) /\ SubSeq(t, 1, Len(p)) = p

\* Display of an unsigned integer: its decimal digits
RECURSIVE Digits(_)
Digits(n) == IF n < 10 THEN <<n>> ELSE Digits(n \div 10) \o <<n % 10>>

\* format!("{}:{}", chat_id, user_id)
RateKey(chat, user) == Digits(chat) \o <<":">> \o Digits(user)

\* the operands taken the other way round
DurationSinceSwapped(later, earlier) == IF earlier >= later THEN earlier - later ELSE 0

\* Instant::duration_since (saturating)
DurationSince(later, earlier) == IF later >= earlier THEN later - earlier ELSE 0

\* ------------------------------------------------------------ rate limiter
\* the window rolls over already at TIME_WINDOW
CheckRateLimitEarlyReset(l, key, t) ==
    IF key \in DOMAIN l
    THEN IF DurationSince(t, l[key][1]) >= TIME_WINDOW
         THEN [admit |-> TRUE, limits |-> [l EXCEPT ![key] = <<t, 1>>]]
         ELSE IF l[key][2] >= MAX_REQUESTS
              THEN [admit |-> FALSE, limits |-> l]
              ELSE [admit |-> TRUE, limits |-> [l EXCEPT ![key] = <<l[key][1], l[key][2] + 1>>]]
    ELSE [admit |-> TRUE, limits |-> l @@ (key :> <<t, 1>>)]

\* the ceiling is tested with > in place of >=
CheckRateLimitOneMore(l, key, t) ==
    IF key \in DOMAIN l
    THEN IF DurationSince(t, l[key][1]) > TIME_WINDOW
         THEN [admit |-> TRUE, limits |-> [l EXCEPT ![key] = <<t, 1>>]]
         ELSE IF l[key][2] > MAX_REQUESTS
              THEN [admit |-> FALSE, limits |-> l]
              ELSE [admit |-> TRUE, limits |-> [l EXCEPT ![key] = <<l[key][1], l[key][2] + 1>>]]
    ELSE [admit |-> TRUE, limits |-> l @@ (key :> <<t, 1>>)]

\* a refused call still counts
CheckRateLimitCountsRefusals(l, key, t) ==
    IF key \in DOMAIN l
    THEN IF DurationSince(t, l[key][1]) > TIME_WINDOW
         THEN [admit |-> TRUE, limits |-> [l EXCEPT ![key] = <<t, 1>>]]
         ELSE IF l[key][2] >= MAX_REQUESTS
              THEN [admit |-> FALSE, limits |-> [l EXCEPT ![key] = <<l[key][1], l[key][2] + 1>>]]
              ELSE [admit |-> TRUE, limits |-> [l EXCEPT ![key] = <<l[key][1], l[key][2] + 1>>]]
    ELSE [admit |-> TRUE, limits |-> l @@ (key :> <<t, 1>>)]

\* HashMap<String, (Instant, u32)> as a function on the inserted keys
CheckRateLimit(l, key, t) ==
    IF key \in DOMAIN l
    THEN IF DurationSince(t, l[key][1]) > TIME_WINDOW
         THEN [admit |-> TRUE, limits |-> [l EXCEPT ![key] = <<t, 1>>]]
         ELSE IF l[key][2] >= MAX_REQUESTS
              THEN [admit |-> FALSE, limits |-> l]
              ELSE [admit |-> TRUE, limits |-> [l EXCEPT ![key] = <<l[key][1], l[key][2] + 1>>]]
    ELSE [admit |-> TRUE, limits |-> l @@ (key :> <<t, 1>>)]

\* ------------------------------------------------- pending-overlay HashMap
\* The table is a set of entries [key, prompt, time]; the operators are
\* HashMap::contains_key, get, remove and insert.
ContainsKey(m, k) == \E e \in m : e.key = k
MapGet(m, k) == IF ContainsKey(m, k) THEN Some(CHOOSE e \in m : e.key = k) ELSE None
MapRemoveNothing(m, k) == m
MapRemove(m, k) == {e \in m : e.key # k}
MapInsert(m, k, id, t) == {e \in m : e.key # k} \cup {[key |-> k, prompt |-> id, time |-> t]}

\* HashMap::entry(..).or_insert(..): an entry that is there stays
InsertIfVacant(m, k, id, t) == IF ContainsKey(m, k) THEN m ELSE MapInsert(m, k, id, t)

\* handler.rs: overlays.remove(..); overlays.insert(.., (sent.id, Instant::now()))
InsertPending(m, k, id, t) == MapInsert(MapRemove(m, k), k, id, t)

\* expiry already at OVERLAY_EXPIRATION
IsExpiredInclusive(t, requestTime) == DurationSince(t, requestTime) >= OVERLAY_EXPIRATION

\* request_time.elapsed() > OVERLAY_EXPIRATION
IsExpired(t, requestTime) == DurationSince(t, requestTime) > OVERLAY_EXPIRATION

\* a filter that takes the entries of age OVERLAY_EXPIRATION too
SweepExpiredInclusive(m, t) == {e \in m : DurationSince(t, e.time) >= OVERLAY_EXPIRATION}

\* sweeper filter: now.duration_since(*time) > OVERLAY_EXPIRATION
SweepExpired(m, t) == {e \in m : DurationSince(t, e.time) > OVERLAY_EXPIRATION}

\* ------------------------------------- overlay_image (utils/image_utils.rs)
\* A Mat is its size, its channel count and its 8-bit pixels, indexed from 0
\* as <<row, column>>; a pixel is the sequence of its channel values (B, G, R
\* and, with 4 channels, alpha).
Min(a, b) == IF a <= b THEN a ELSE b

\* Mat::default(), which is also what imread and imdecode give for data they
\* cannot read
EmptyMat == [rows |-> 0, cols |-> 0, channels |-> 1, px |-> <<>>]

\* a raster all of whose pixels are v
Uniform(rows, cols, v) ==
    [rows |-> rows, cols |-> cols, channels |-> Len(v),
     px |-> [p \in (0..(rows - 1)) \X (0..(cols - 1)) |-> v]]

Success(m) == [ok |-> TRUE, mat |-> m, err |-> "none"]
Failure(e) == [ok |-> FALSE, mat |-> EmptyMat, err |-> e]

Dims == 1..MaxDim
BaseValue == 200
OverlayValue == 100
Alphas == {0, 128, 255}
BasePixels == {<<BaseValue>>, <<BaseValue, BaseValue, BaseValue>>,
               <<BaseValue, BaseValue, BaseValue, 0>>, <<BaseValue, BaseValue, BaseValue, 255>>}
OverlayPixels == {<<OverlayValue, OverlayValue, OverlayValue>>,
                  <<OverlayValue, OverlayValue, OverlayValue, 255>>}

\* the decoded photos and the overlay assets
Bases == {EmptyMat} \cup {Uniform(r, c, v) : r \in Dims, c \in Dims, v \in BasePixels}
Overlays == {EmptyMat} \cup {Uniform(r, c, v) : r \in Dims, c \in Dims, v \in OverlayPixels}

\* the base is left with its three channels
CvtColorNone(m) == m

\* imgproc::cvt_color(base, COLOR_BGR2BGRA): an opaque alpha channel is added
CvtColorBGR2BGRA(m) ==
    [m EXCEPT !.channels = 4, !.px = [p \in DOMAIN m.px |-> Append(m.px[p], 255)]]

\* (new_width as f32 / (overlay.cols() as f32 / overlay.rows() as f32)) as i32.
\* The cast truncates, and turns NaN (0.0 / 0.0, the empty overlay) into 0.
\* For the sizes drawn here the two f32 roundings do not move the quotient
\* across an integer, so the result is the integer quotient.
NewHeight(new_width, overlay) ==
    IF overlay.cols = 0 \/ overlay.rows = 0 THEN 0
    ELSE (new_width * overlay.rows) \div overlay.cols

\* the alpha of each row of the resized overlay: what the interpolation of
\* imgproc::resize gives is left open, row by row
ResizeScripts(new_height) == [0..(new_height - 1) -> Alphas]

\* imgproc::resize(overlay, Size(new_width, new_height), INTER_LINEAR): an
\* empty source or an empty size is an error; the result has the asked size
\* and the channels of the source
Resize(src, new_width, new_height, script) ==
    IF src.rows = 0 \/ src.cols = 0 \/ new_width <= 0 \/ new_height <= 0
    THEN Failure("resize")
    ELSE Success([rows |-> new_height, cols |-> new_width, channels |-> src.channels,
                  px |-> [p \in (0..(new_height - 1)) \X (0..(new_width - 1)) |->
                            IF src.channels = 4
                            THEN <<OverlayValue, OverlayValue, OverlayValue, script[p[1]]>>
                            ELSE src.px[<<0, 0>>]]])

\* Mat::at_2d::<Vec4b>(y, x): the element type and the indices are checked
At2dVec4b(m, y, x) == m.channels = 4 /\ <<y, x>> \in DOMAIN m.px

\* one channel: ((1.0 - alpha) * base as f32 + alpha * overlay as f32) as u8
\* with alpha = a / 255.0; for the values drawn here the f32 result
\* truncates to the integer quotient
BlendChannel(a, b, o) == ((255 - a) * b + a * o) \div 255

\* the pixel written for overlay pixel op over base pixel bp
BlendPixel(bp, op) ==
    <<BlendChannel(op[4], bp[1], op[1]), BlendChannel(op[4], bp[2], op[2]),
      BlendChannel(op[4], bp[3], op[3]), 255>>

\* for y in 0..height_to_use { for x in 0..new_width { .. } }, from the i-th
\* pixel of that order on
RECURSIVE BlendLoop(_, _, _, _, _)
BlendLoop(result, resized, y_offset, height_to_use, i) ==
    LET new_width == resized.cols
        y == i \div new_width
        x == i % new_width IN
    IF i >= height_to_use * new_width THEN Success(result)
    ELSE IF ~At2dVec4b(resized, y, x) THEN Failure("at_2d")
    ELSE IF resized.px[<<y, x>>][4] > 0
         THEN IF ~At2dVec4b(result, y + y_offset, x) THEN Failure("at_2d")
              ELSE BlendLoop([result EXCEPT !.px[<<y + y_offset, x>>] =
                                               BlendPixel(@, resized.px[<<y, x>>])],
                             resized, y_offset, height_to_use, i + 1)
         ELSE BlendLoop(result, resized, y_offset, height_to_use, i + 1)

\* the blending starts from the previous result when there is one
OverlayImageOnPrevious(base, overlay, script, previous_result) ==
    LET base_height == base.rows
        base_width == base.cols
        bgra_base == IF previous_result # None THEN Unwrap(previous_result)
                     ELSE IF base.channels = 3 THEN CvtColorBGR2BGRA(base) ELSE base
        new_width == base_width
        new_height == NewHeight(new_width, overlay)
        y_offset == IF new_height > base_height THEN 0 ELSE base_height - new_height
        resized == Resize(overlay, new_width, new_height, script)
        height_to_use == Min(new_height, base_height) IN
    IF base.channels \notin {3, 4} THEN Failure("StsUnsupportedFormat")
    ELSE IF ~resized.ok THEN resized
    ELSE BlendLoop(bgra_base, resized.mat, y_offset, height_to_use, 0)

\* the overlay is laid from the top row of the base
OverlayImageTopAligned(base, overlay, script, previous_result) ==
    LET base_height == base.rows
        base_width == base.cols
        bgra_base == IF base.channels = 3 THEN CvtColorBGR2BGRA(base) ELSE base
        new_width == base_width
        new_height == NewHeight(new_width, overlay)
        y_offset == 0
        resized == Resize(overlay, new_width, new_height, script)
        height_to_use == Min(new_height, base_height) IN
    IF base.channels \notin {3, 4} THEN Failure("StsUnsupportedFormat")
    ELSE IF ~resized.ok THEN resized
    ELSE BlendLoop(bgra_base, resized.mat, y_offset, height_to_use, 0)

\* overlay_image(base, overlay, _previous_result); script is the resize's part
OverlayImage(base, overlay, script, previous_result) ==
    LET base_height == base.rows
        base_width == base.cols
        bgra_base == IF base.channels = 3 THEN CvtColorBGR2BGRA(base) ELSE base
        new_width == base_width
        new_height == NewHeight(new_width, overlay)
        y_offset == IF new_height > base_height THEN 0 ELSE base_height - new_height
        resized == Resize(overlay, new_width, new_height, script)
        height_to_use == Min(new_height, base_height) IN
    IF base.channels \notin {3, 4} THEN Failure("StsUnsupportedFormat")
    ELSE IF ~resized.ok THEN resized
    ELSE BlendLoop(bgra_base, resized.mat, y_offset, height_to_use, 0)

\* ------------------------------------------------------------------- state
VARIABLES
    now,               \* the monotonic clock (seconds)
    commands,          \* number of /degenme messages delivered so far
    photos,            \* number of photo messages delivered so far
    nextId,            \* MessageId the platform gives the next prompt
    limits,            \* RateLimiter.limits
    pending_overlays,  \* the pending table
    lockOwner,         \* holder of the pending table's Mutex, or "free"
    message_queue,     \* Queue<Message>.items
    handler,           \* message_handler activations
    consumer,          \* process_queue task
    sweeper,           \* the cleanup task
    delivered,         \* history: number of composed photos sent, by prompt
    orphans,           \* history: prompts overwritten while still pending
    recent,            \* history: per bucket, the admissions of the last TIME_WINDOW
    probe,             \* the last direct call of check_rate_limit and their number
    dequeued,          \* history: number of jobs the consumer has taken
    prompted,          \* history: per key, the prompt most recently sent to it
    compose,           \* the last direct call of overlay_image: arguments and result
    ended,             \* history: the entries the consumer or the sweeper took out
    arrival            \* history: the time each waiting job was enqueued

vars == <<now, commands, photos, nextId, limits, pending_overlays, lockOwner,
          message_queue, handler, consumer, sweeper, delivered, orphans, recent, probe, dequeued, prompted, compose, ended, arrival>>

\* one more composed photo for prompt p
Count(d, p) == IF p \in DOMAIN d THEN [d EXCEPT ![p] = @ + 1] ELSE d @@ (p :> 1)

\* a transport call as it appears in a task's call log
Call(op, what, id, ok) == [op |-> op, what |-> what, id |-> id, ok |-> ok]

\* MessageIds are opaque and unique.  The program compares only prompt ids, so
\* the prompts are numbered 1, 2, ...; OtherId stands for any message that is
\* not a prompt, and the processing message answering the reply to prompt p
\* gets the id -p.
OtherId == 0
ProcessingId(prompt) == 0 - prompt

NoMsg == [from |-> None, text |-> None, photo |-> FALSE, reply |-> None]

IdleHandler == [pc |-> "idle", msg |-> NoMsg, preamble |-> FALSE,
                calls |-> <<>>, ret |-> "none"]

IdleConsumer == [pc |-> "idle", msg |-> NoMsg, arrived |-> 0, matched |-> None, age |-> 0, outcome |-> "none",
                 retry_count |-> 0, attempts |-> 0, result |-> "none", apology |-> "none",
                 calls |-> <<>>, failed |-> FALSE, ret |-> "none"]

IdleSweeper == [pc |-> "sleep", expired |-> {}, cur |-> None, before |-> {}, startedAt |-> 0,
                looked |-> {}, reminded |-> {}, deleted |-> {}, errors |-> {}]

\* no direct call yet
NoProbe == [calls |-> 0, key |-> None, admit |-> FALSE]

\* the admission times of bucket key that lie within TIME_WINDOW of t, then t
Admitted(rec, key, t) ==
    LET old == IF key \in DOMAIN rec THEN rec[key] ELSE <<>>
        kept == SelectSeq(old, LAMBDA x : t - x <= TIME_WINDOW)
    IN  IF key \in DOMAIN rec THEN [rec EXCEPT ![key] = Append(kept, t)]
        ELSE rec @@ (key :> <<t>>)

\* the entry of prompt p was taken out of the table by `by`
Ended(log, p, by) == log \cup {[prompt |-> p, by |-> by]}

\* no direct call yet
NoCompose == [called |-> FALSE, base |-> EmptyMat, overlay |-> EmptyMat, script |-> <<>>,
              previous_result |-> None, result |-> Failure("none")]

\* p is the prompt most recently sent to key k
Latest(log, k, p) == IF k \in DOMAIN log THEN [log EXCEPT ![k] = p] ELSE log @@ (k :> p)

Init ==
    /\ now = 0
    /\ commands = 0
    /\ photos = 0
    /\ nextId = 1
    /\ limits = <<>>
    /\ pending_overlays = {}
    /\ lockOwner = "free"
    /\ message_queue = <<>>
    /\ handler = [h \in Activations |-> IdleHandler]
    /\ consumer = IdleConsumer
    /\ sweeper = IdleSweeper
    /\ delivered = <<>>
    /\ orphans = {}
    /\ recent = <<>>
    /\ probe = NoProbe
    /\ dequeued = 0
    /\ prompted = <<>>
    /\ compose = NoCompose
    /\ ended = {}
    /\ arrival = <<>>

\* ------------------------------------------------------------------- clock
Tick(steps) ==
    /\ \E d \in steps : now + d <= MaxTime /\ now' = now + d
    /\ UNCHANGED <<commands, photos, nextId, limits, pending_overlays, lockOwner,
                   message_queue, handler, consumer, sweeper, delivered, orphans, recent, probe, dequeued, prompted, compose, ended, arrival>>

\* ------------------------------------------------- dispatcher (src/main.rs)
\* inbound messages the platform can deliver; a message of a channel has no
\* sender (msg.from() is None)
Members == {Some(u) : u \in Users}
Senders == {None} \cup Members
ReplyTargets == {None} \cup {Some(i) : i \in OtherId..(nextId - 1)}
TextMessages(senders) ==
    {[from |-> f, text |-> Some(t), photo |-> FALSE, reply |-> None] : f \in senders, t \in Texts}
PhotoMessages(senders) ==
    {[from |-> f, text |-> None, photo |-> TRUE, reply |-> r] : f \in senders, r \in ReplyTargets}
OtherMessages(senders) ==
    {[from |-> f, text |-> None, photo |-> FALSE, reply |-> None] : f \in senders}

\* a table keyed by the chat alone
PendingKeyChatOnly(m) == <<Chat, 0>>

\* the key (chat_id, user_id) of the sender's entry
PendingKey(m) == <<Chat, Unwrap(m.from)>>
MsgRateKey(m) == RateKey(Chat, UnwrapOrZero(m.from))

CanReceive(h) == handler[h].pc = "idle"

\* the message goes out a second time
SentTwice(h, what, id, ok, ret) ==
    [handler EXCEPT ![h].pc = "done",
                    ![h].calls = @ \o <<Call("send_message", what, id, ok),
                                        Call("send_message", what, id, ok)>>,
                    ![h].ret = ret]

\* the handler's record after a transport call that ends the activation
Sent(h, what, id, ok, ret) ==
    [handler EXCEPT ![h].pc = "done",
                    ![h].calls = Append(@, Call("send_message", what, id, ok)),
                    ![h].ret = ret]

\* text.starts_with("/start"): commands::start::start is called
OnStart(h, senders) ==
    /\ CanReceive(h)
    /\ \E m \in TextMessages(senders) :
        /\ StartsWith(Unwrap(m.text), TxtStart)
        /\ handler' = [handler EXCEPT ![h] = [IdleHandler EXCEPT !.pc = "start_send", !.msg = m]]
    /\ UNCHANGED <<now, commands, photos, nextId, limits, pending_overlays, lockOwner, message_queue,
                   consumer, sweeper, delivered, orphans, recent, probe, dequeued, prompted, compose, ended, arrival>>

\* start.rs: bot.send_message(chat, welcome).await?
StartSend(h) ==
    /\ handler[h].pc = "start_send"
    /\ \E ok \in BOOLEAN :
        handler' = Sent(h, "welcome", OtherId, ok, IF ok THEN "ok" ELSE "err")
    /\ UNCHANGED <<now, commands, photos, nextId, limits, pending_overlays, lockOwner, message_queue,
                   consumer, sweeper, delivered, orphans, recent, probe, dequeued, prompted, compose, ended, arrival>>

\* text.starts_with("/degenme"): the dispatcher's own check_rate_limit
OnDegenme(h, cap, senders) ==
    /\ CanReceive(h)
    /\ commands < cap
    /\ \E m \in TextMessages(senders) :
        /\ ~StartsWith(Unwrap(m.text), TxtStart)
        /\ StartsWith(Unwrap(m.text), TxtDegenme)
        /\ LET r == CheckRateLimit(limits, MsgRateKey(m), now) IN
            /\ limits' = r.limits
            /\ recent' = IF r.admit THEN Admitted(recent, MsgRateKey(m), now) ELSE recent
            /\ handler' = [handler EXCEPT ![h] = [IdleHandler EXCEPT
                              !.pc = IF r.admit THEN "handle_rate" ELSE "notice_send",
                              !.msg = m]]
    /\ commands' = commands + 1
    /\ UNCHANGED <<now, photos, nextId, pending_overlays, lockOwner, message_queue,
                   consumer, sweeper, delivered, orphans, probe, dequeued, prompted, compose, ended, arrival>>

\* main.rs: bot.send_message(chat_id, "You're sending commands too quickly...").await?
NoticeSend(h) ==
    /\ handler[h].pc = "notice_send"
    /\ \E ok \in BOOLEAN :
        handler' = Sent(h, "rate_notice", OtherId, ok, IF ok THEN "ok" ELSE "err")
    /\ UNCHANGED <<now, commands, photos, nextId, limits, pending_overlays, lockOwner, message_queue,
                   consumer, sweeper, delivered, orphans, recent, probe, dequeued, prompted, compose, ended, arrival>>

\* handler.rs: CommandHandler::handle consults the rate limiter again
HandleRate(h) ==
    /\ handler[h].pc = "handle_rate"
    /\ LET r == CheckRateLimit(limits, MsgRateKey(handler[h].msg), now) IN
        /\ limits' = r.limits
        /\ recent' = IF r.admit THEN Admitted(recent, MsgRateKey(handler[h].msg), now) ELSE recent
        /\ handler' = [handler EXCEPT ![h].pc = IF r.admit THEN "handle_lock" ELSE "handle_notice"]
    /\ UNCHANGED <<now, commands, photos, nextId, pending_overlays, lockOwner, message_queue,
                   consumer, sweeper, delivered, orphans, probe, dequeued, prompted, compose, ended, arrival>>

\* handler.rs: the rate-limit notice of handle; a failed send is logged
HandleNotice(h) ==
    /\ handler[h].pc = "handle_notice"
    /\ \E ok \in BOOLEAN :
        handler' = Sent(h, "rate_notice", OtherId, ok, "ok")
    /\ UNCHANGED <<now, commands, photos, nextId, limits, pending_overlays, lockOwner, message_queue,
                   consumer, sweeper, delivered, orphans, recent, probe, dequeued, prompted, compose, ended, arrival>>

\* an expired entry does not count as a previous request
HandleLockFreshOnly(h) ==
    /\ handler[h].pc = "handle_lock"
    /\ lockOwner = "free"
    /\ lockOwner' = h
    /\ LET m == handler[h].msg IN
        handler' = [handler EXCEPT ![h].pc = "prompt_send",
                       ![h].preamble = /\ m.from # None
                                       /\ ContainsKey(pending_overlays, PendingKey(m))
                                       /\ ~IsExpired(now, Unwrap(MapGet(pending_overlays, PendingKey(m))).time)]
    /\ UNCHANGED <<now, commands, photos, nextId, limits, pending_overlays, message_queue,
                   consumer, sweeper, delivered, orphans, recent, probe, dequeued, prompted, compose, ended, arrival>>

\* the table is read without taking its lock
HandleNoLock(h) ==
    /\ handler[h].pc = "handle_lock"
    /\ lockOwner' = lockOwner
    /\ LET m == handler[h].msg IN
        handler' = [handler EXCEPT ![h].pc = "prompt_send",
                       ![h].preamble = (m.from # None /\ ContainsKey(pending_overlays, PendingKey(m)))]
    /\ UNCHANGED <<now, commands, photos, nextId, limits, pending_overlays, message_queue,
                   consumer, sweeper, delivered, orphans, recent, probe, dequeued, prompted, compose, ended, arrival>>

\* handler.rs: pending_overlays.lock().await, then the reply text is chosen
HandleLock(h) ==
    /\ handler[h].pc = "handle_lock"
    /\ lockOwner = "free"
    /\ lockOwner' = h
    /\ LET m == handler[h].msg IN
        handler' = [handler EXCEPT ![h].pc = "prompt_send",
                       ![h].preamble = (m.from # None /\ ContainsKey(pending_overlays, PendingKey(m)))]
    /\ UNCHANGED <<now, commands, photos, nextId, limits, pending_overlays, message_queue,
                   consumer, sweeper, delivered, orphans, recent, probe, dequeued, prompted, compose, ended, arrival>>

\* the old entry is removed before the send, whatever the send returns
PromptSendClearsFirst(h) ==
    /\ handler[h].pc = "prompt_send"
    /\ LET m == handler[h].msg
           what == IF handler[h].preamble THEN "prompt_cancelled" ELSE "prompt"
           old == IF m.from = None THEN None ELSE MapGet(pending_overlays, PendingKey(m)) IN
        \E ok \in BOOLEAN :
            /\ handler' = Sent(h, what, IF ok THEN nextId ELSE OtherId, ok, "ok")
            /\ nextId' = IF ok THEN nextId + 1 ELSE nextId
            /\ pending_overlays' = IF m.from = None THEN pending_overlays
                                   ELSE IF ok
                                   THEN InsertPending(pending_overlays, PendingKey(m), nextId, now)
                                   ELSE MapRemove(pending_overlays, PendingKey(m))
            /\ orphans' = IF ok /\ old # None
                          THEN orphans \cup {[key |-> PendingKey(m), prompt |-> Unwrap(old).prompt,
                                              by |-> nextId]}
                          ELSE orphans
            /\ prompted' = IF ok /\ m.from # None THEN Latest(prompted, PendingKey(m), nextId)
                           ELSE prompted
    /\ lockOwner' = "free"
    /\ UNCHANGED <<now, commands, photos, limits, message_queue, consumer, sweeper, delivered,
                   recent, probe, dequeued, compose, ended, arrival>>

\* the prompt of the entry that is replaced is deleted
PromptSendDeletesOld(h) ==
    /\ handler[h].pc = "prompt_send"
    /\ LET m == handler[h].msg
           what == IF handler[h].preamble THEN "prompt_cancelled" ELSE "prompt"
           old == IF m.from = None THEN None ELSE MapGet(pending_overlays, PendingKey(m)) IN
        \E ok \in BOOLEAN :
            /\ handler' = IF ok /\ old # None
                          THEN [Sent(h, what, nextId, ok, "ok") EXCEPT
                                  ![h].calls = Append(@, Call("delete_message", "prompt",
                                                              Unwrap(old).prompt, TRUE))]
                          ELSE Sent(h, what, IF ok THEN nextId ELSE OtherId, ok, "ok")
            /\ nextId' = IF ok THEN nextId + 1 ELSE nextId
            /\ pending_overlays' = IF ok /\ m.from # None
                                   THEN InsertPending(pending_overlays, PendingKey(m), nextId, now)
                                   ELSE pending_overlays
            /\ orphans' = IF ok /\ old # None
                          THEN orphans \cup {[key |-> PendingKey(m), prompt |-> Unwrap(old).prompt,
                                              by |-> nextId]}
                          ELSE orphans
            /\ prompted' = IF ok /\ m.from # None THEN Latest(prompted, PendingKey(m), nextId)
                           ELSE prompted
    /\ lockOwner' = "free"
    /\ UNCHANGED <<now, commands, photos, limits, message_queue, consumer, sweeper, delivered,
                   recent, probe, dequeued, compose, ended, arrival>>

\* handler.rs: the prompt is sent with the table locked; on Ok the entry is
\* written with Instant::now(); the guard is dropped when handle returns
PromptSend(h) ==
    /\ handler[h].pc = "prompt_send"
    /\ LET m == handler[h].msg
           what == IF handler[h].preamble THEN "prompt_cancelled" ELSE "prompt"
           old == IF m.from = None THEN None ELSE MapGet(pending_overlays, PendingKey(m)) IN
        \E ok \in BOOLEAN :
            /\ handler' = Sent(h, what, IF ok THEN nextId ELSE OtherId, ok, "ok")
            /\ nextId' = IF ok THEN nextId + 1 ELSE nextId
            /\ pending_overlays' = IF ok /\ m.from # None
                                   THEN InsertPending(pending_overlays, PendingKey(m), nextId, now)
                                   ELSE pending_overlays
            /\ orphans' = IF ok /\ old # None
                          THEN orphans \cup {[key |-> PendingKey(m), prompt |-> Unwrap(old).prompt,
                                              by |-> nextId]}
                          ELSE orphans
            /\ prompted' = IF ok /\ m.from # None THEN Latest(prompted, PendingKey(m), nextId)
                           ELSE prompted
    /\ lockOwner' = "free"
    /\ UNCHANGED <<now, commands, photos, limits, message_queue, consumer, sweeper, delivered,
                   recent, probe, dequeued, compose, ended, arrival>>

\* PromptSend in two steps, for the tasks that run on other threads in
\* between.  First bot.send_message(..).await returns: on Ok the prompt
\* exists and can be replied to; on Err the failure is logged and handle
\* returns, which drops the guard
PromptOut(h) ==
    /\ handler[h].pc = "prompt_send"
    /\ LET m == handler[h].msg
           what == IF handler[h].preamble THEN "prompt_cancelled" ELSE "prompt" IN
        \E ok \in BOOLEAN :
            /\ handler' = [Sent(h, what, IF ok THEN nextId ELSE OtherId, ok, "ok") EXCEPT
                              ![h].pc = IF ok THEN "prompt_store" ELSE "done"]
            /\ nextId' = IF ok THEN nextId + 1 ELSE nextId
            /\ prompted' = IF ok /\ m.from # None THEN Latest(prompted, PendingKey(m), nextId)
                           ELSE prompted
            /\ lockOwner' = IF ok THEN lockOwner ELSE "free"
    /\ UNCHANGED <<now, commands, photos, limits, pending_overlays, message_queue, consumer, sweeper,
                   delivered, orphans, recent, probe, dequeued, compose, ended, arrival>>

\* then the Ok arm: overlays.remove, overlays.insert((chat_id, user_id),
\* (sent.id, Instant::now())), and the guard is dropped when handle returns
PromptStore(h) ==
    /\ handler[h].pc = "prompt_store"
    /\ LET m == handler[h].msg
           sent == handler[h].calls[Len(handler[h].calls)].id
           old == IF m.from = None THEN None ELSE MapGet(pending_overlays, PendingKey(m)) IN
        /\ pending_overlays' = IF m.from # None
                               THEN InsertPending(pending_overlays, PendingKey(m), sent, now)
                               ELSE pending_overlays
        /\ orphans' = IF old # None
                      THEN orphans \cup {[key |-> PendingKey(m), prompt |-> Unwrap(old).prompt,
                                          by |-> sent]}
                      ELSE orphans
    /\ handler' = [handler EXCEPT ![h].pc = "done"]
    /\ lockOwner' = "free"
    /\ UNCHANGED <<now, commands, photos, nextId, limits, message_queue, consumer, sweeper, delivered,
                   recent, probe, dequeued, prompted, compose, ended, arrival>>

\* a text that starts with neither command: nothing happens
OnOtherText(h, senders) ==
    /\ CanReceive(h)
    /\ \E m \in TextMessages(senders) :
        /\ ~StartsWith(Unwrap(m.text), TxtStart)
        /\ ~StartsWith(Unwrap(m.text), TxtDegenme)
        /\ handler' = [handler EXCEPT ![h] = [IdleHandler EXCEPT !.pc = "done", !.msg = m, !.ret = "ok"]]
    /\ UNCHANGED <<now, commands, photos, nextId, limits, pending_overlays, lockOwner, message_queue,
                   consumer, sweeper, delivered, orphans, recent, probe, dequeued, prompted, compose, ended, arrival>>

\* msg.photo().is_some(): Queue::enqueue pushes the message at the back
OnPhoto(h, cap, senders) ==
    /\ CanReceive(h)
    /\ photos < cap
    /\ \E m \in PhotoMessages(senders) :
        /\ message_queue' = Append(message_queue, m)
        /\ handler' = [handler EXCEPT ![h] = [IdleHandler EXCEPT !.pc = "done", !.msg = m, !.ret = "ok"]]
    /\ photos' = photos + 1
    /\ arrival' = Append(arrival, now)
    /\ UNCHANGED <<now, commands, nextId, limits, pending_overlays, lockOwner, consumer, sweeper, delivered, orphans, recent, probe, dequeued, prompted, compose, ended>>

\* neither text nor photo
OnOther(h, senders) ==
    /\ CanReceive(h)
    /\ \E m \in OtherMessages(senders) :
        handler' = [handler EXCEPT ![h] = [IdleHandler EXCEPT !.pc = "done", !.msg = m, !.ret = "ok"]]
    /\ UNCHANGED <<now, commands, photos, nextId, limits, pending_overlays, lockOwner, message_queue,
                   consumer, sweeper, delivered, orphans, recent, probe, dequeued, prompted, compose, ended, arrival>>

\* message_handler returns to the dispatcher
HandlerReturn(h) ==
    /\ handler[h].pc = "done"
    /\ handler' = [handler EXCEPT ![h] = IdleHandler]
    /\ UNCHANGED <<now, commands, photos, nextId, limits, pending_overlays, lockOwner, message_queue,
                   consumer, sweeper, delivered, orphans, recent, probe, dequeued, prompted, compose, ended, arrival>>

\* ------------------------------------- queue consumer (main.rs process_queue)
\* the job at the back is taken (pop_back)
DequeueBack ==
    /\ consumer.pc = "idle"
    /\ message_queue # <<>>
    /\ consumer' = [IdleConsumer EXCEPT !.pc = "lock", !.msg = message_queue[Len(message_queue)],
                                        !.arrived = arrival[Len(arrival)]]
    /\ message_queue' = SubSeq(message_queue, 1, Len(message_queue) - 1)
    /\ arrival' = SubSeq(arrival, 1, Len(arrival) - 1)
    /\ dequeued' = dequeued + 1
    /\ UNCHANGED <<now, commands, photos, nextId, limits, pending_overlays, lockOwner,
                   handler, sweeper, delivered, orphans, recent, probe, prompted, compose, ended>>

\* Queue::dequeue pops the front; overlay::process_image wraps the message in
\* a fresh ImageProcessor whose private queue holds just this message
Dequeue ==
    /\ consumer.pc = "idle"
    /\ message_queue # <<>>
    /\ consumer' = [IdleConsumer EXCEPT !.pc = "lock", !.msg = Head(message_queue),
                                        !.arrived = Head(arrival)]
    /\ message_queue' = Tail(message_queue)
    /\ arrival' = Tail(arrival)
    /\ dequeued' = dequeued + 1
    /\ UNCHANGED <<now, commands, photos, nextId, limits, pending_overlays, lockOwner,
                   handler, sweeper, delivered, orphans, recent, probe, prompted, compose, ended>>

\* the entry that holds the prompt replied to, whoever owns it
LookupAnyOwner(m) ==
    IF m.from = None \/ m.reply = None \/ (\A e \in pending_overlays : e.prompt # Unwrap(m.reply))
    THEN None
    ELSE Some(CHOOSE e \in pending_overlays : e.prompt = Unwrap(m.reply))

\* the entry process_image finds for the message, if any
Lookup(m) == IF m.from = None \/ m.reply = None THEN None ELSE MapGet(pending_overlays, PendingKey(m))
\* any reply of a sender with an entry
MatchesAnyReply(m) == Lookup(m) # None

\* original_msg_id == reply_to.id
Matches(m) == Lookup(m) # None /\ Unwrap(Lookup(m)).prompt = Unwrap(m.reply)

\* processor.rs: no user, no reply, no entry or another prompt: only log lines
MatchNone ==
    /\ consumer.pc = "lock"
    /\ lockOwner = "free"
    /\ ~Matches(consumer.msg)
    /\ consumer' = [consumer EXCEPT !.pc = "done", !.outcome = "ignored", !.ret = "ok"]
    /\ UNCHANGED <<now, commands, photos, nextId, limits, pending_overlays, lockOwner,
                   message_queue, handler, sweeper, delivered, orphans, recent, probe, dequeued, prompted, compose, ended, arrival>>

\* processor.rs: the entry is expired: it is removed and the notice is sent
\* while the guard is still alive
MatchExpired ==
    /\ consumer.pc = "lock"
    /\ lockOwner = "free"
    /\ Matches(consumer.msg)
    /\ IsExpired(now, Unwrap(Lookup(consumer.msg)).time)
    /\ pending_overlays' = MapRemove(pending_overlays, PendingKey(consumer.msg))
    /\ lockOwner' = "consumer"
    /\ consumer' = [consumer EXCEPT !.pc = "expired_send", !.outcome = "expired",
                                    !.matched = Lookup(consumer.msg),
                                    !.age = DurationSince(now, Unwrap(Lookup(consumer.msg)).time)]
    /\ ended' = Ended(ended, Unwrap(Lookup(consumer.msg)).prompt, "expired")
    /\ UNCHANGED <<now, commands, photos, nextId, limits, message_queue, handler, sweeper, delivered,
                   orphans, recent, probe, dequeued, prompted, compose, arrival>>

ExpiredSend ==
    /\ consumer.pc = "expired_send"
    /\ \E ok \in BOOLEAN :
        consumer' = [consumer EXCEPT !.pc = "done",
                        !.calls = Append(@, Call("send_message", "expired", OtherId, ok)),
                        !.failed = ~ok,
                        !.ret = IF ok THEN "ok" ELSE "err"]
    /\ lockOwner' = "free"
    /\ UNCHANGED <<now, commands, photos, nextId, limits, pending_overlays, message_queue, handler,
                   sweeper, delivered, orphans, recent, probe, dequeued, prompted, compose, ended, arrival>>

\* the entry is taken as live when it was live at the time the photo came in
MatchFreshAtArrival ==
    /\ consumer.pc = "lock"
    /\ lockOwner = "free"
    /\ Matches(consumer.msg)
    /\ ~IsExpired(consumer.arrived, Unwrap(Lookup(consumer.msg)).time)
    /\ pending_overlays' = MapRemove(pending_overlays, PendingKey(consumer.msg))
    /\ consumer' = [consumer EXCEPT !.pc = "processing", !.outcome = "matched",
                                    !.matched = Lookup(consumer.msg),
                                    !.age = DurationSince(now, Unwrap(Lookup(consumer.msg)).time)]
    /\ ended' = Ended(ended, Unwrap(Lookup(consumer.msg)).prompt, "photo")
    /\ UNCHANGED <<now, commands, photos, nextId, limits, lockOwner, message_queue, handler,
                   sweeper, delivered, orphans, recent, probe, dequeued, prompted, compose, arrival>>

\* processor.rs: the entry is live: it is removed and the guard dropped
MatchFresh ==
    /\ consumer.pc = "lock"
    /\ lockOwner = "free"
    /\ Matches(consumer.msg)
    /\ ~IsExpired(now, Unwrap(Lookup(consumer.msg)).time)
    /\ pending_overlays' = MapRemove(pending_overlays, PendingKey(consumer.msg))
    /\ consumer' = [consumer EXCEPT !.pc = "processing", !.outcome = "matched",
                                    !.matched = Lookup(consumer.msg),
                                    !.age = DurationSince(now, Unwrap(Lookup(consumer.msg)).time)]
    /\ ended' = Ended(ended, Unwrap(Lookup(consumer.msg)).prompt, "photo")
    /\ UNCHANGED <<now, commands, photos, nextId, limits, lockOwner, message_queue, handler,
                   sweeper, delivered, orphans, recent, probe, dequeued, prompted, compose, arrival>>

\* ----- the matching photo is processed (processor.rs, after drop(overlays))
\* None of these steps touches shared state, so the whole run is one action.
\* The environment's part is a script: whether the processing message is
\* sent, which fetch step fails (0: none), how many overlay_image calls fail
\* before one succeeds, and whether imencode, send_photo, the delete_message
\* and the apology succeed.
FetchStages == <<"get_file", "download", "read_bytes", "decode", "read_overlay">>
FetchApology == <<"apology_process", "apology_download", "apology_read", "apology_decode",
                  "apology_overlay">>

\* a script names only the outcomes the run gets to
Scripts ==
    {s \in [processing : BOOLEAN, fetch : 0..Len(FetchStages), fails : 0..(MAX_RETRIES + 2),
            encode : BOOLEAN, photo : BOOLEAN, delete : BOOLEAN, apology : BOOLEAN] :
        /\ ~s.processing => s.fetch = 0
        /\ (~s.processing \/ s.fetch # 0) => s.fails = 0
        /\ (~s.processing \/ s.fetch # 0 \/ s.fails > MAX_RETRIES) => s.encode
        /\ (~s.processing \/ s.fetch # 0 \/ s.fails > MAX_RETRIES \/ ~s.encode) => s.photo
        /\ (~s.processing \/ ~s.photo) => s.delete
        /\ (~s.processing \/ ~s.delete \/ (s.fetch = 0 /\ s.fails <= MAX_RETRIES /\ s.encode)) => s.apology}

\* a loop that retries once more (retry_count <= MAX_RETRIES)
RECURSIVE ComposeLoopOneMore(_, _, _)
ComposeLoopOneMore(retry_count, attempts, fails) ==
    IF fails = 0
    THEN [ok |-> TRUE, retry_count |-> retry_count, attempts |-> attempts + 1]
    ELSE IF retry_count <= MAX_RETRIES
         THEN ComposeLoopOneMore(retry_count + 1, attempts + 1, fails - 1)
         ELSE [ok |-> FALSE, retry_count |-> retry_count, attempts |-> attempts + 1]

\* the retry loop: Ok breaks, Err with retry_count < MAX_RETRIES retries,
\* any other Err gives up
RECURSIVE ComposeLoop(_, _, _)
ComposeLoop(retry_count, attempts, fails) ==
    IF fails = 0
    THEN [ok |-> TRUE, retry_count |-> retry_count, attempts |-> attempts + 1]
    ELSE IF retry_count < MAX_RETRIES
         THEN ComposeLoop(retry_count + 1, attempts + 1, fails - 1)
         ELSE [ok |-> FALSE, retry_count |-> retry_count, attempts |-> attempts + 1]

\* an error arm: delete_message(processing_msg.id).await?, then the apology .await?
ErrorArm(c, s, apology) ==
    LET del == Call("delete_message", "processing", ProcessingId(Unwrap(c.matched).prompt), s.delete) IN
    IF ~s.delete
    THEN [c EXCEPT !.calls = Append(@, del), !.failed = TRUE, !.ret = "err"]
    ELSE [c EXCEPT !.calls = @ \o <<del, Call("send_message", apology, OtherId, s.apology)>>,
                   !.apology = apology,
                   !.failed = TRUE,
                   !.ret = IF s.apology THEN "ok" ELSE "err"]

\* send_photo(..).await?, then the processing message is deleted (a failure
\* of that delete is logged)
SendArm(c, s) ==
    LET pid == ProcessingId(Unwrap(c.matched).prompt)
        photo == Call("send_photo", "photo", OtherId, s.photo) IN
    IF ~s.photo
    THEN [c EXCEPT !.calls = Append(@, photo), !.failed = TRUE, !.ret = "err"]
    ELSE [c EXCEPT !.calls = @ \o <<photo, Call("delete_message", "processing", pid, s.delete)>>,
                   !.failed = @ \/ ~s.delete,
                   !.ret = "ok"]

\* the consumer's record when process_image returns
RunProcessing(c, s) ==
    LET pid == ProcessingId(Unwrap(c.matched).prompt)
        sent == [c EXCEPT !.calls = Append(@, Call("send_message", "processing",
                                                   IF s.processing THEN pid ELSE OtherId, s.processing))]
        loop == ComposeLoop(0, 0, s.fails)
        composed == [sent EXCEPT !.retry_count = loop.retry_count, !.attempts = loop.attempts,
                                 !.result = IF loop.ok THEN "ok" ELSE "gave_up",
                                 !.failed = s.fails > 0] IN
    IF ~s.processing THEN [sent EXCEPT !.failed = TRUE, !.ret = "err"]
    ELSE IF s.fetch # 0 THEN ErrorArm(sent, s, FetchApology[s.fetch])
    ELSE IF ~loop.ok THEN ErrorArm(composed, s, "apology_later")
    ELSE IF ~s.encode THEN ErrorArm(composed, s, "apology_process")
    ELSE SendArm(composed, s)

PhotoSent(c) == \E i \in DOMAIN c.calls : c.calls[i].op = "send_photo" /\ c.calls[i].ok

Process ==
    /\ consumer.pc = "processing"
    /\ \E s \in Scripts :
        LET c == RunProcessing(consumer, s) IN
            /\ consumer' = [c EXCEPT !.pc = "done"]
            /\ delivered' = IF PhotoSent(c)
                            THEN Count(delivered, Unwrap(consumer.matched).prompt)
                            ELSE delivered
    /\ UNCHANGED <<now, commands, photos, nextId, limits, pending_overlays, lockOwner,
                   message_queue, handler, sweeper, orphans, recent, probe, dequeued, prompted, compose, ended, arrival>>

\* a loop that ends at the first job whose processing returns an error
ConsumerSleepUnlessError ==
    /\ consumer.pc = "done"
    /\ consumer.ret # "err"
    /\ consumer' = IdleConsumer
    /\ UNCHANGED <<now, commands, photos, nextId, limits, pending_overlays, lockOwner, message_queue,
                   handler, sweeper, delivered, orphans, recent, probe, dequeued, prompted, compose, ended, arrival>>

\* process_queue logs an error, sleeps 100 ms and loops
ConsumerSleep ==
    /\ consumer.pc = "done"
    /\ consumer' = IdleConsumer
    /\ UNCHANGED <<now, commands, photos, nextId, limits, pending_overlays, lockOwner, message_queue,
                   handler, sweeper, delivered, orphans, recent, probe, dequeued, prompted, compose, ended, arrival>>

\* --------------------------------------- sweeper (utils/cleanup.rs, main.rs)
\* the head of `for (chat_id, user_id) in expired`: the entry of key k is
\* removed and get_chat_member is awaited (the Vec comes out of a HashMap
\* iterator, so any order of the expired keys is possible)
SweepTake(sw, k) ==
    [sw EXCEPT !.pc = "notify",
               !.cur = Some([key |-> k, prompt |-> Unwrap(MapGet(pending_overlays, k)).prompt])]

\* a pass that finds nothing expired: lock, scan, unlock without suspension
SweepIdle ==
    /\ sweeper.pc = "sleep"
    /\ lockOwner = "free"
    /\ SweepExpired(pending_overlays, now) = {}
    /\ sweeper' = [sweeper EXCEPT !.pc = "done", !.before = pending_overlays, !.startedAt = now]
    /\ UNCHANGED <<now, commands, photos, nextId, limits, pending_overlays, lockOwner,
                   message_queue, handler, consumer, delivered, orphans, recent, probe, dequeued, prompted, compose, ended, arrival>>

\* a pass that finds expired entries keeps the table locked until it returns
SweepStart ==
    /\ sweeper.pc = "sleep"
    /\ lockOwner = "free"
    /\ LET exp == {e.key : e \in SweepExpired(pending_overlays, now)} IN
        \E k \in exp :
            /\ sweeper' = SweepTake([sweeper EXCEPT !.expired = exp, !.before = pending_overlays,
                                                    !.startedAt = now], k)
            /\ pending_overlays' = MapRemove(pending_overlays, k)
            /\ ended' = Ended(ended, Unwrap(MapGet(pending_overlays, k)).prompt, "sweeper")
    /\ lockOwner' = "sweeper"
    /\ UNCHANGED <<now, commands, photos, nextId, limits, message_queue,
                   handler, consumer, delivered, orphans, recent, probe, dequeued, prompted, compose, arrival>>

\* what the platform answers for one entry: get_chat_member (an error, or a
\* member with or without username), the reminder's send_message (made only
\* for a member) and delete_message
SweepOutcomes ==
    {o \in [member : {"err", "username", "Degen"}, sent : BOOLEAN, deleted : BOOLEAN] :
        o.member = "err" => o.sent}

\* the transport calls of one entry that failed
SweepErrors(key, o) ==
    {[key |-> key, op |-> op] :
        op \in {x \in {"get_chat_member", "send_message", "delete_message"} :
                    \/ x = "get_chat_member" /\ o.member = "err"
                    \/ x = "send_message" /\ ~o.sent
                    \/ x = "delete_message" /\ ~o.deleted}}

\* the first failure ends the pass
NotifiedAbort(o) ==
    LET cur == Unwrap(sweeper.cur)
        failed == SweepErrors(cur.key, o) # {} IN
    [sweeper EXCEPT !.expired = IF failed THEN {} ELSE @ \ {cur.key},
                    !.cur = None,
                    !.looked = @ \cup {cur.key},
                    !.reminded = IF o.member = "err" THEN @ ELSE @ \cup {[key |-> cur.key, name |-> o.member]},
                    !.deleted = @ \cup {[key |-> cur.key, prompt |-> cur.prompt]},
                    !.errors = @ \cup SweepErrors(cur.key, o)]

\* the body for one entry: if get_chat_member is Ok the reminder is sent (the
\* name is the username or "Degen"); then delete_message(chat_id, msg_id);
\* every error is logged
Notified(o) ==
    LET cur == Unwrap(sweeper.cur) IN
    [sweeper EXCEPT !.expired = @ \ {cur.key},
                    !.cur = None,
                    !.looked = @ \cup {cur.key},
                    !.reminded = IF o.member = "err" THEN @ ELSE @ \cup {[key |-> cur.key, name |-> o.member]},
                    !.deleted = @ \cup {[key |-> cur.key, prompt |-> cur.prompt]},
                    !.errors = @ \cup SweepErrors(cur.key, o)]

\* one entry is done and the loop takes the next one
SweepNotify ==
    /\ sweeper.pc = "notify"
    /\ \E o \in SweepOutcomes :
        \E k \in Notified(o).expired :
            /\ sweeper' = SweepTake(Notified(o), k)
            /\ pending_overlays' = MapRemove(pending_overlays, k)
            /\ ended' = Ended(ended, Unwrap(MapGet(pending_overlays, k)).prompt, "sweeper")
    /\ UNCHANGED <<now, commands, photos, nextId, limits, lockOwner, message_queue,
                   handler, consumer, delivered, orphans, recent, probe, dequeued, prompted, compose, arrival>>

\* the last entry is done: the guard is dropped and the pass returns
SweepEnd ==
    /\ sweeper.pc = "notify"
    /\ \E o \in SweepOutcomes :
        /\ Notified(o).expired = {}
        /\ sweeper' = [Notified(o) EXCEPT !.pc = "done"]
    /\ lockOwner' = "free"
    /\ UNCHANGED <<now, commands, photos, nextId, limits, pending_overlays, message_queue,
                   handler, consumer, delivered, orphans, recent, probe, dequeued, prompted, compose, ended, arrival>>

\* loop { sleep(60 s); cleanup_expired_overlays(..) }: the pass may start at
\* any later instant
SweepSleep ==
    /\ sweeper.pc = "done"
    /\ sweeper' = IdleSweeper
    /\ UNCHANGED <<now, commands, photos, nextId, limits, pending_overlays, lockOwner,
                   message_queue, handler, consumer, delivered, orphans, recent, probe, dequeued, prompted, compose, ended, arrival>>

\* ----------------------------------------------------------- specifications
\* the handling of /degenme
Command(h, cap, senders) ==
    \/ OnDegenme(h, cap, senders) \/ NoticeSend(h)
    \/ HandleRate(h) \/ HandleNotice(h) \/ HandleLock(h) \/ PromptSend(h)
    \/ HandlerReturn(h)

\* a /degenme of a sender who stays within the rate limit: the dispatcher's
\* check admits it and leaves room for the check of handle
Request(h, cap, senders) ==
    /\ OnDegenme(h, cap, senders)
    /\ handler'[h].pc = "handle_rate"
    /\ limits'[MsgRateKey(handler'[h].msg)][2] < MAX_REQUESTS

\* the handling of an admitted /degenme
Prompting(h, cap, senders) ==
    \/ Request(h, cap, senders)
    \/ HandleRate(h) \/ HandleLock(h) \/ PromptSend(h)
    \/ HandlerReturn(h)

\* the other inbound messages
Chatter(h, cap, senders) ==
    \/ OnStart(h, senders) \/ StartSend(h) \/ OnOtherText(h, senders) \/ OnOther(h, senders)
    \/ OnPhoto(h, cap, senders)

Consume ==
    \/ Dequeue \/ MatchNone \/ MatchExpired \/ ExpiredSend \/ MatchFresh
    \/ Process \/ ConsumerSleep

Sweep ==
    \/ SweepIdle \/ SweepStart \/ SweepNotify \/ SweepEnd \/ SweepSleep

\* the whole bot: dispatcher, queue consumer and sweeper
Next ==
    \/ Tick(ExpirySteps)
    \/ \E h \in Handlers : Command(h, MaxCommands, Senders) \/ Chatter(h, MaxPhotos, Senders)
    \/ Consume
    \/ Sweep

Spec == Init /\ [][Next]_vars

\* /degenme traffic alone: the rate limiter and the writes of the table
NextCommands == Tick(WindowSteps) \/ \E h \in Handlers : Command(h, MaxBurst, Senders)

SpecCommands == Init /\ [][NextCommands]_vars

\* admitted commands and photo replies of the chat's members, without the
\* sweeper
NextReplies ==
    \/ Tick(ExpirySteps)
    \/ \E h \in Handlers : Prompting(h, MaxPrompts, Members) \/ OnPhoto(h, MaxReplies, Members)
    \/ Consume

SpecReplies == Init /\ [][NextReplies]_vars

\* one admitted command, photo replies and the consumer
NextJobs ==
    \/ Tick(ExpirySteps)
    \/ \E h \in Handlers : Prompting(h, MaxCommands, Members) \/ OnPhoto(h, MaxReplies, Members)
    \/ Consume

SpecJobs == Init /\ [][NextJobs]_vars

\* process_queue is a spawned task that loops for ever and the transport calls
\* of the consumer and of a handler return: the consumer keeps being
\* scheduled, and a handler that holds the table comes to release it
FairJobs ==
    SpecJobs /\ WF_vars(Consume) /\ WF_vars(\E h \in Handlers : PromptSend(h))

\* admitted commands of the chat's members and the sweeper
NextSweeps ==
    \/ Tick(ExpirySteps)
    \/ \E h \in Handlers : Prompting(h, MaxPrompts, Members)
    \/ Sweep

SpecSweeps == Init /\ [][NextSweeps]_vars

\* the sweeper is a spawned task that loops for ever, and its transport calls
\* return: it keeps being scheduled
FairSweeps == SpecSweeps /\ WF_vars(Sweep)

\* and the transport calls of a handler return as well: a handler that holds
\* the table over its send_message comes to release it
FairExpiry == FairSweeps /\ WF_vars(\E h \in Handlers : PromptSend(h))

\* the consumer on photos that belong to no session
Drain == Dequeue \/ MatchNone \/ ConsumerSleep

\* the inbound messages other than /degenme, and the queue
NextInbox ==
    \/ \E h \in Handlers : Chatter(h, MaxReplies, Senders) \/ HandlerReturn(h)
    \/ Drain

SpecInbox == Init /\ [][NextInbox]_vars

\* process_queue is a spawned task that loops for ever: it keeps being
\* scheduled
FairInbox == SpecInbox /\ WF_vars(Drain)

\* activations of message_handler running together with the consumer, the
\* prompt send in its two steps
NextCausal ==
    \/ Tick(ExpirySteps)
    \/ \E h \in Activations :
        \/ Request(h, MaxPrompts, Members)
        \/ HandleRate(h) \/ HandleLock(h) \/ PromptOut(h) \/ PromptStore(h)
        \/ HandlerReturn(h)
        \/ OnPhoto(h, MaxPhotos, Members)
    \/ Consume

SpecCausal == Init /\ [][NextCausal]_vars

\* admitted commands and photo replies of the chat's members, the consumer
\* and the sweeper
NextSessions ==
    \/ Tick(ExpirySteps)
    \/ \E h \in Handlers : Prompting(h, MaxPrompts, Members) \/ OnPhoto(h, MaxPhotos, Members)
    \/ Consume
    \/ Sweep

SpecSessions == Init /\ [][NextSessions]_vars

\* ----- overlay_image called directly, on any base and overlay
\* the previous results a caller can pass
PreviousResults(base) ==
    {None, Some(Uniform(base.rows, base.cols, <<0, 0, 0, 255>>))}

ComposeCall ==
    /\ ~compose.called
    /\ \E base \in Bases, overlay \in Overlays :
        \E script \in ResizeScripts(NewHeight(base.cols, overlay)),
           previous_result \in PreviousResults(base) :
            compose' = [called |-> TRUE, base |-> base, overlay |-> overlay, script |-> script,
                        previous_result |-> previous_result,
                        result |-> OverlayImage(base, overlay, script, previous_result)]
    /\ UNCHANGED <<now, commands, photos, nextId, limits, pending_overlays, lockOwner, message_queue,
                   handler, consumer, sweeper, delivered, orphans, recent, probe, dequeued, prompted, ended, arrival>>

NextCompose == ComposeCall

SpecCompose == Init /\ [][NextCompose]_vars

\* ----- check_rate_limit called directly, by any caller, on any key
LimiterSteps == {59, 60, 61}
LimiterKeys == {RateKey(Chat, 0), RateKey(Chat, 1)}

CheckCall(key) ==
    /\ probe.calls < MaxChecks
    /\ LET r == CheckRateLimit(limits, key, now) IN
        /\ limits' = r.limits
        /\ recent' = IF r.admit THEN Admitted(recent, key, now) ELSE recent
        /\ probe' = [calls |-> probe.calls + 1, key |-> Some(key), admit |-> r.admit]
    /\ UNCHANGED <<now, commands, photos, nextId, pending_overlays, lockOwner, message_queue,
                   handler, consumer, sweeper, delivered, orphans, dequeued, prompted, compose, ended, arrival>>

NextLimiter == Tick(LimiterSteps) \/ \E key \in LimiterKeys : CheckCall(key)

SpecLimiter == Init /\ [][NextLimiter]_vars

\* ------------------------------------------------------------------ claims
IsDegenme(m) == m.text # None /\ StartsWith(Unwrap(m.text), TxtDegenme)
HasCall(calls, op, what) == \E i \in DOMAIN calls : calls[i].op = op /\ calls[i].what = what
Entries(m, k) == {e \in m : e.key = k}

\* C1: while at most MAX_REQUESTS /degenme commands have been issued and the
\* first window has not passed, every member's /degenme is admitted: its
\* activation ends with a prompt send and, when the send succeeded, the
\* pending entry holds that prompt; no rate-limit notice is sent.
C1_FirstFiveAdmitted ==
    \A h \in Handlers :
        (/\ handler[h].pc = "done"
         /\ IsDegenme(handler[h].msg)
         /\ handler[h].msg.from # None
         /\ commands <= MAX_REQUESTS
         /\ now <= TIME_WINDOW)
        => LET c == handler[h].calls IN
            /\ ~HasCall(c, "send_message", "rate_notice")
            /\ Len(c) = 1
            /\ c[1].what \in {"prompt", "prompt_cancelled"}
            /\ c[1].ok => \E e \in pending_overlays :
                            e.key = PendingKey(handler[h].msg) /\ e.prompt = c[1].id

\* ----- replies (processor.rs), stated without Lookup, Matches and PendingKey
SenderKey(m) == <<Chat, Unwrap(m.from)>>

\* the photo m replies to the prompt stored for its sender
StoredReply(m) ==
    /\ m.from # None
    /\ m.reply # None
    /\ \E e \in pending_overlays : e.key = SenderKey(m) /\ e.prompt = Unwrap(m.reply)

\* the age of the entry m replies to
ReplyAge(m) ==
    now - (CHOOSE e \in pending_overlays : e.key = SenderKey(m) /\ e.prompt = Unwrap(m.reply)).time

\* process_image takes the lock and decides what the photo is
MatchStep == consumer.pc = "lock" /\ consumer'.pc # "lock"

\* the step ignores the photo: no call, process_image is over, table untouched
Ignored ==
    /\ consumer'.outcome = "ignored"
    /\ consumer'.pc = "done"
    /\ consumer'.calls = <<>>
    /\ pending_overlays' = pending_overlays
    /\ delivered' = delivered

PromptAbsent(m, p) == \A e \in m : e.prompt # p

\* C2: a photo that replies to its sender's stored prompt no later than
\* OVERLAY_EXPIRATION after the prompt was stored is taken as matched and the
\* entry is removed; when no later step fails, the calls are, in this order,
\* the processing message, the composed photo and the deletion of that
\* processing message, and the prompt is no longer in the table.
C2_Done ==
    (consumer.pc = "done" /\ consumer.outcome = "matched" /\ ~consumer.failed)
    => LET c == consumer.calls IN
        /\ Len(c) = 3
        /\ c[1].op = "send_message" /\ c[1].what = "processing" /\ c[1].ok
        /\ c[2].op = "send_photo" /\ c[2].ok
        /\ c[3] = Call("delete_message", "processing", c[1].id, TRUE)
        /\ c[1].id # OtherId
        /\ PromptAbsent(pending_overlays, Unwrap(consumer.matched).prompt)

C2_FreshReplyComposedInOrder ==
    [][/\ (MatchStep /\ StoredReply(consumer.msg) /\ ReplyAge(consumer.msg) <= OVERLAY_EXPIRATION)
            => /\ consumer'.outcome = "matched"
               /\ PromptAbsent(pending_overlays', Unwrap(consumer.msg.reply))
       /\ C2_Done']_vars

\* the entry was exactly OVERLAY_EXPIRATION old and the three calls went through
C2_Witness ==
    /\ consumer.pc = "done"
    /\ consumer.outcome = "matched"
    /\ ~consumer.failed
    /\ consumer.age = OVERLAY_EXPIRATION
    /\ PhotoSent(consumer)

\* C3: the entry of a matched photo is out of the table before the first
\* transport call of its processing, and no prompt ever gets more than one
\* composed photo.
C3_AtMostOnePhotoPerPrompt ==
    /\ \A p \in DOMAIN delivered : delivered[p] <= 1
    /\ consumer.pc \in {"processing", "expired_send"}
        => /\ consumer.calls = <<>>
           /\ PromptAbsent(pending_overlays, Unwrap(consumer.matched).prompt)

\* a second reply to a prompt that already got its photo has been ignored
C3_Witness ==
    /\ consumer.pc = "done"
    /\ consumer.outcome = "ignored"
    /\ consumer.msg.reply # None
    /\ Unwrap(consumer.msg.reply) \in DOMAIN delivered
    /\ delivered[Unwrap(consumer.msg.reply)] = 1

\* C4: a photo that replies to its sender's stored prompt more than
\* OVERLAY_EXPIRATION after the prompt was stored is taken as expired and the
\* entry is removed; the only call of its processing is one send of the
\* expired notice: no processing message, no photo.
C4_Done ==
    (consumer.pc = "done" /\ consumer.outcome = "expired")
    => LET c == consumer.calls IN
        /\ Len(c) = 1
        /\ c[1].op = "send_message" /\ c[1].what = "expired"
        /\ ~PhotoSent(consumer)
        /\ PromptAbsent(pending_overlays, Unwrap(consumer.matched).prompt)

C4_ExpiredReplyNoticed ==
    [][/\ (MatchStep /\ StoredReply(consumer.msg) /\ ReplyAge(consumer.msg) > OVERLAY_EXPIRATION)
            => /\ consumer'.outcome = "expired"
               /\ PromptAbsent(pending_overlays', Unwrap(consumer.msg.reply))
       /\ C4_Done']_vars

C4_Witness ==
    /\ consumer.pc = "done"
    /\ consumer.outcome = "expired"
    /\ consumer.age > OVERLAY_EXPIRATION
    /\ consumer.calls = <<Call("send_message", "expired", OtherId, TRUE)>>

\* ----- sweeper passes (cleanup.rs)
SweepAge(e) == sweeper.startedAt - e.time

\* C5: when a sweeper pass returns, the table is the table of the pass's
\* start without the entries that were then older than OVERLAY_EXPIRATION;
\* every other entry is there unchanged.
C5_SweepRemovesExactlyExpired ==
    [][(sweeper.pc # "done" /\ sweeper'.pc = "done")
        => pending_overlays' = {e \in sweeper'.before :
                                   ~(sweeper'.startedAt - e.time > OVERLAY_EXPIRATION)}]_vars

\* a pass met an expired entry and a live one
C5_Witness ==
    /\ sweeper.pc = "done"
    /\ \E e \in sweeper.before : SweepAge(e) > OVERLAY_EXPIRATION /\ e \notin pending_overlays
    /\ \E e \in sweeper.before : SweepAge(e) <= OVERLAY_EXPIRATION /\ e \in pending_overlays

\* C6: for every entry a pass found expired the sweeper has sent a reminder
\* (addressed to the username or to "Degen") and has issued the deletion of
\* the entry's prompt.
C6_ReminderAndDeleteForEveryExpired ==
    sweeper.pc = "done"
    => \A e \in sweeper.before :
        SweepAge(e) > OVERLAY_EXPIRATION
        => /\ \E r \in sweeper.reminded : r.key = e.key /\ r.name \in {"username", "Degen"}
           /\ [key |-> e.key, prompt |-> e.prompt] \in sweeper.deleted

\* ----- sessions
\* C7: once a /degenme has replaced prompt P1 of a key by P2, a photo of that
\* sender replying to P1 is ignored (no call, table unchanged), and a photo
\* replying to P2 no later than OVERLAY_EXPIRATION after P2 was stored is
\* matched and, when nothing fails, answered with the composed photo.
C7_ReplacedPromptIsDead ==
    [][/\ (/\ MatchStep
           /\ consumer.msg.from # None
           /\ consumer.msg.reply # None
           /\ \E o \in orphans : o.key = SenderKey(consumer.msg)
                                 /\ o.prompt = Unwrap(consumer.msg.reply))
            => Ignored
       /\ (/\ MatchStep
           /\ StoredReply(consumer.msg)
           /\ \E o \in orphans : o.key = SenderKey(consumer.msg)
                                 /\ o.by = Unwrap(consumer.msg.reply)
           /\ ReplyAge(consumer.msg) <= OVERLAY_EXPIRATION)
            => consumer'.outcome = "matched"
       /\ (consumer'.pc = "done" /\ consumer'.outcome = "matched" /\ ~consumer'.failed)
            => PhotoSent(consumer')]_vars

\* the reply to P1 has been ignored while P2 is stored and live, and the
\* sender's reply to P2 is next in the queue
C7_Witness ==
    /\ consumer.pc = "done"
    /\ consumer.outcome = "ignored"
    /\ consumer.calls = <<>>
    /\ consumer.msg.from # None
    /\ consumer.msg.reply # None
    /\ message_queue # <<>>
    /\ \E o \in orphans :
        /\ o.key = SenderKey(consumer.msg)
        /\ o.prompt = Unwrap(consumer.msg.reply)
        /\ Head(message_queue).from = consumer.msg.from
        /\ Head(message_queue).reply = Some(o.by)
        /\ \E e \in pending_overlays :
            e.key = o.key /\ e.prompt = o.by /\ now - e.time <= OVERLAY_EXPIRATION

\* C8: sessions are per sender.  A photo replying to the prompt stored for
\* another sender is ignored (no call, table unchanged); a photo replying to
\* the sender's own live prompt is matched and leaves the other senders'
\* entries alone; storing a prompt leaves the other senders' entries alone.
OthersKept(k) == {e \in pending_overlays' : e.key # k} = {e \in pending_overlays : e.key # k}

C8_SessionsPerSender ==
    [][/\ (/\ MatchStep
           /\ consumer.msg.from # None
           /\ consumer.msg.reply # None
           /\ \E e \in pending_overlays : e.key # SenderKey(consumer.msg)
                                          /\ e.prompt = Unwrap(consumer.msg.reply))
            => Ignored
       /\ (MatchStep /\ StoredReply(consumer.msg) /\ ReplyAge(consumer.msg) <= OVERLAY_EXPIRATION)
            => consumer'.outcome = "matched" /\ OthersKept(SenderKey(consumer.msg))
       /\ \A h \in Handlers :
            (handler[h].pc = "prompt_send" /\ handler'[h].pc = "done" /\ handler[h].msg.from # None)
            => OthersKept(SenderKey(handler[h].msg))]_vars

\* two senders have an entry each, and a photo of one of them that replied
\* to the other's prompt has been ignored
C8_Witness ==
    /\ consumer.pc = "done"
    /\ consumer.outcome = "ignored"
    /\ consumer.msg.from # None
    /\ consumer.msg.reply # None
    /\ ContainsKey(pending_overlays, SenderKey(consumer.msg))
    /\ \E e \in pending_overlays : e.key # SenderKey(consumer.msg)
                                   /\ e.prompt = Unwrap(consumer.msg.reply)

\* C9: a photo that is not a reply, has no sender, whose sender has no entry,
\* or that replies to another message than the stored prompt, is ignored: no
\* call is made and the table is unchanged.
C9_OtherPhotosIgnored ==
    [][(MatchStep /\ ~StoredReply(consumer.msg)) => Ignored]_vars

\* a reply of a sender without an entry, while another sender has one
C9_Witness ==
    /\ consumer.pc = "done"
    /\ consumer.outcome = "ignored"
    /\ consumer.calls = <<>>
    /\ consumer.msg.from # None
    /\ consumer.msg.reply # None
    /\ ~ContainsKey(pending_overlays, SenderKey(consumer.msg))
    /\ \E e \in pending_overlays : e.prompt = Unwrap(consumer.msg.reply)

\* C10: the table never holds two entries of one key, and a prompt sent for
\* a key that has an entry replaces it by (the new prompt's id, the time of
\* the write).
UniqueKeys(m) == \A e1, e2 \in m : e1.key = e2.key => e1 = e2

C10_OneEntryPerKey ==
    [][/\ UniqueKeys(pending_overlays')
       /\ \A h \in Handlers :
            (/\ handler[h].pc = "prompt_send"
             /\ handler'[h].pc = "done"
             /\ handler[h].msg.from # None
             /\ handler'[h].calls[Len(handler'[h].calls)].ok
             /\ Entries(pending_overlays, SenderKey(handler[h].msg)) # {})
            => LET id == handler'[h].calls[Len(handler'[h].calls)].id IN
                /\ PromptAbsent(pending_overlays, id)
                /\ Entries(pending_overlays', SenderKey(handler[h].msg))
                    = {[key |-> SenderKey(handler[h].msg), prompt |-> id, time |-> now]}]_vars

\* a prompt has just replaced an older prompt of its key
C10_Witness ==
    \E h \in Handlers :
        /\ handler[h].pc = "done"
        /\ handler[h].msg.from # None
        /\ handler[h].calls = <<Call("send_message", "prompt_cancelled", nextId - 1, TRUE)>>
        /\ \E o \in orphans : o.key = SenderKey(handler[h].msg) /\ o.by = nextId - 1
        /\ Entries(pending_overlays, SenderKey(handler[h].msg))
            = {[key |-> SenderKey(handler[h].msg), prompt |-> nextId - 1, time |-> now]}

\* ----- the rate limiter at its two call sites
\* the bucket of key refuses a call at time t
Refused(l, key, t) ==
    /\ key \in DOMAIN l
    /\ t - l[key][1] <= TIME_WINDOW
    /\ l[key][2] >= MAX_REQUESTS

BucketKey(m) == RateKey(Chat, IF m.from = None THEN 0 ELSE Unwrap(m.from))

\* C11: a /degenme that the rate limiter refuses, at the dispatcher or in
\* handle, leads to exactly one send of the rate-limit notice and to nothing
\* else: no prompt is sent, no message id is used and the pending table
\* stays as it was.
C11_DeniedSendsOnlyNotice ==
    [][\A h \in Handlers :
        /\ (/\ handler[h].pc = "idle"
            /\ IsDegenme(handler'[h].msg)
            /\ Refused(limits, BucketKey(handler'[h].msg), now))
            => /\ handler'[h].pc = "notice_send"
               /\ handler'[h].calls = <<>>
               /\ pending_overlays' = pending_overlays
        /\ (/\ handler[h].pc = "handle_rate"
            /\ handler'[h] # handler[h]
            /\ Refused(limits, BucketKey(handler[h].msg), now))
            => /\ handler'[h].pc = "handle_notice"
               /\ handler'[h].calls = <<>>
               /\ pending_overlays' = pending_overlays
        /\ (handler[h].pc \in {"notice_send", "handle_notice"} /\ handler'[h] # handler[h])
            => /\ handler'[h].pc = "done"
               /\ Len(handler'[h].calls) = 1
               /\ handler'[h].calls[1].op = "send_message"
               /\ handler'[h].calls[1].what = "rate_notice"
               /\ pending_overlays' = pending_overlays
               /\ nextId' = nextId]_vars

\* the notice went out for a sender whose entry is still in the table
C11_Witness ==
    \E h \in Handlers :
        /\ handler[h].pc = "done"
        /\ IsDegenme(handler[h].msg)
        /\ handler[h].msg.from # None
        /\ handler[h].calls = <<Call("send_message", "rate_notice", OtherId, TRUE)>>
        /\ Entries(pending_overlays, SenderKey(handler[h].msg)) # {}

\* ----- check_rate_limit against the fixed-window reference
\* the verdict and the bucket the reference gives a call on key at time t
RefCheck(l, key, t) ==
    IF key \notin DOMAIN l THEN [admit |-> TRUE, bucket |-> <<t, 1>>]
    ELSE IF t - l[key][1] > TIME_WINDOW THEN [admit |-> TRUE, bucket |-> <<t, 1>>]
    ELSE IF l[key][2] >= MAX_REQUESTS THEN [admit |-> FALSE, bucket |-> l[key]]
    ELSE [admit |-> TRUE, bucket |-> <<l[key][1], l[key][2] + 1>>]

\* C12: every call of check_rate_limit gives the verdict of the four-step
\* reference and leaves the called key's bucket as the reference does
\* (inserted, reset to (now, 1), unchanged on a refusal, or incremented); the
\* buckets of all other keys stay as they were.
C12_MatchesReference ==
    [][probe'.calls = probe.calls + 1
        => LET key == Unwrap(probe'.key)
               ref == RefCheck(limits, key, now) IN
            /\ probe'.admit = ref.admit
            /\ DOMAIN limits' = DOMAIN limits \cup {key}
            /\ limits'[key] = ref.bucket
            /\ \A k \in DOMAIN limits \ {key} : limits'[k] = limits[k]]_vars

\* a call has just rolled the window of a bucket over while the other key's
\* bucket is full
C12_Witness ==
    /\ probe.admit
    /\ now > TIME_WINDOW
    /\ limits[Unwrap(probe.key)] = <<now, 1>>
    /\ \E k \in DOMAIN limits : k # Unwrap(probe.key) /\ limits[k][2] = MAX_REQUESTS

\* C13: the count of every bucket is at least 1 and at most MAX_REQUESTS.
C13_CountWithinBounds ==
    \A k \in DOMAIN limits : limits[k][2] >= 1 /\ limits[k][2] <= MAX_REQUESTS

\* a call on a full bucket has been refused
C13_Witness ==
    /\ probe.key # None
    /\ ~probe.admit
    /\ limits[Unwrap(probe.key)][2] = MAX_REQUESTS

\* the admissions of bucket k no earlier than time t
AdmittedSince(k, t) == Cardinality({i \in DOMAIN recent[k] : recent[k][i] >= t})

\* C14 as stated: the admissions of a key within any interval of length
\* TIME_WINDOW number at most MAX_REQUESTS.  The interval is taken here to
\* end with the latest admission and to exclude its own start, so that a
\* violation does not depend on how the end points are counted.
C14_SlidingWindow ==
    \A k \in DOMAIN recent :
        Cardinality({i \in DOMAIN recent[k] :
                        recent[k][Len(recent[k])] - recent[k][i] < TIME_WINDOW}) <= MAX_REQUESTS

\* C14: within one window of a bucket, from its start to TIME_WINDOW later,
\* at most MAX_REQUESTS calls are admitted, and they are the ones the bucket
\* counts; a span of TIME_WINDOW that reaches over a roll-over holds at most
\* 2 * MAX_REQUESTS - 1 admissions.
C14_FixedWindow ==
    \A k \in DOMAIN recent :
        /\ k \in DOMAIN limits
        /\ AdmittedSince(k, limits[k][1]) = limits[k][2]
        /\ AdmittedSince(k, limits[k][1]) <= MAX_REQUESTS
        /\ \A i \in DOMAIN recent[k] :
            recent[k][i] >= limits[k][1] => recent[k][i] <= limits[k][1] + TIME_WINDOW
        /\ Len(recent[k]) <= 2 * MAX_REQUESTS - 1

\* four admissions at the end of a window and five right after the roll-over
C14_Witness ==
    \E k \in DOMAIN recent :
        /\ Len(recent[k]) = 2 * MAX_REQUESTS - 1
        /\ recent[k][Len(recent[k])] - recent[k][1] < TIME_WINDOW
        /\ limits[k][2] = MAX_REQUESTS

\* ----- locks and failures
\* the task is suspended in a transport call
HandlerInTransport(h) ==
    handler[h].pc \in {"start_send", "notice_send", "handle_notice", "prompt_send"}
ConsumerInTransport == consumer.pc \in {"expired_send", "processing"}
SweeperInTransport == sweeper.pc = "notify"

\* C15: a task that is inside a transport call does not hold the lock of the
\* pending table.  (The locks of the queue and of the rate buckets are taken
\* and released inside enqueue, dequeue and check_rate_limit, which make no
\* transport call.)
C15_NoLockAcrossTransport ==
    /\ \A h \in Handlers : HandlerInTransport(h) => lockOwner # h
    /\ ConsumerInTransport => lockOwner # "consumer"
    /\ SweeperInTransport => lockOwner # "sweeper"

ApologyTexts == {FetchApology[i] : i \in DOMAIN FetchApology} \cup {"apology_later"}

ApologySent(c) ==
    \E i \in DOMAIN c.calls : c.calls[i].op = "send_message" /\ c.calls[i].what \in ApologyTexts

\* a transport call of the processing failed: a logged call that is not the
\* apology itself, or one of the fetch steps get_file, download, read
TransportFailed(c) ==
    \/ \E i \in DOMAIN c.calls : ~c.calls[i].ok /\ c.calls[i].what \notin ApologyTexts
    \/ c.apology \in {"apology_download", "apology_read"}
    \/ c.apology = "apology_process" /\ c.attempts = 0

\* C16: when a transport call fails while a matching photo is processed, an
\* apology is sent and no composed photo is delivered.
C16_FailureApologised ==
    (consumer.pc = "done" /\ consumer.outcome = "matched" /\ TransportFailed(consumer))
    => ApologySent(consumer) /\ ~PhotoSent(consumer)

\* C17: every activation of message_handler ends with Ok(()).
C17_HandlerReturnsOk ==
    \A h \in Handlers : handler[h].pc = "done" => handler[h].ret = "ok"

\* C20: after the composed photo has been sent, the deletion of the prompt
\* the photo replied to is issued.
C20_PromptDeletedAfterPhoto ==
    (consumer.pc = "done" /\ consumer.outcome = "matched" /\ ~consumer.failed /\ PhotoSent(consumer))
    => \E i, j \in DOMAIN consumer.calls :
        /\ i < j
        /\ consumer.calls[i].op = "send_photo"
        /\ consumer.calls[j].op = "delete_message"
        /\ consumer.calls[j].id = Unwrap(consumer.matched).prompt

\* ----- commands and the queue
\* the command token of a text: the characters after "/" up to the first "@"
\* or space
TokenEnd(t) ==
    LET stops == {i \in 2..Len(t) : t[i] \in {"@", " "}} IN
    IF stops = {} THEN Len(t) + 1 ELSE CHOOSE i \in stops : \A j \in stops : i <= j
Token(t) == SubSeq(t, 2, TokenEnd(t) - 1)
KnownTokens == {Tail(TxtStart), Tail(TxtDegenme)}

\* C18: an activation for a text whose command token is neither start nor
\* degenme makes no transport call.
C18_UnknownCommandSilent ==
    \A h \in Handlers :
        (/\ handler[h].pc = "done"
         /\ handler[h].msg.text # None
         /\ Token(Unwrap(handler[h].msg.text)) \notin KnownTokens)
        => handler[h].calls = <<>>

\* C19: the queue changes only by a photo appended at the back or by the
\* consumer taking the job at the front, which is the job it then processes;
\* so every job is taken once, in the order of arrival (the jobs taken and
\* the jobs waiting add up to the jobs enqueued), and every enqueued job is
\* taken in the end.
C19_QueueStep ==
    /\ message_queue' # message_queue
        => \/ /\ \E h \in Handlers :
                    /\ handler'[h].msg.photo
                    /\ message_queue' = Append(message_queue, handler'[h].msg)
              /\ photos' = photos + 1
              /\ dequeued' = dequeued
              /\ consumer' = consumer
           \/ /\ consumer.pc = "idle"
              /\ consumer'.msg = Head(message_queue)
              /\ message_queue' = Tail(message_queue)
              /\ dequeued' = dequeued + 1
              /\ photos' = photos
    /\ (photos' # photos \/ dequeued' # dequeued \/ consumer'.msg # consumer.msg)
        => (message_queue' # message_queue \/ consumer'.msg = NoMsg)
    /\ photos' = dequeued' + Len(message_queue')

C19_FifoExactlyOnce ==
    /\ [][C19_QueueStep]_vars
    /\ \A n \in 1..MaxReplies : (photos >= n) ~> (dequeued >= n)

\* two different jobs came in; the first is with the consumer, the second
\* waits
C19_Witness ==
    /\ photos = 2
    /\ dequeued = 1
    /\ consumer.pc = "lock"
    /\ Len(message_queue) = 1
    /\ consumer.msg # Head(message_queue)

\* ----- the retry loop
\* the run left the retry loop by its last arm: every overlay_image call failed
GaveUp(c) == c.pc = "done" /\ c.outcome = "matched" /\ c.result = "gave_up"

\* C21 as stated: a run whose overlay_image calls all failed has made at most
\* MAX_RETRIES calls.
C21_AtMostMaxRetriesAttempts ==
    GaveUp(consumer) => consumer.attempts <= MAX_RETRIES

\* C21: no run makes more than MAX_RETRIES retries, that is MAX_RETRIES + 1
\* overlay_image calls; a run whose calls all failed has made exactly
\* MAX_RETRIES + 1 calls.
C21_AtMostMaxRetriesRetries ==
    /\ consumer.retry_count <= MAX_RETRIES
    /\ consumer.attempts <= MAX_RETRIES + 1
    /\ consumer.attempts <= consumer.retry_count + 1
    /\ GaveUp(consumer) => (consumer.retry_count = MAX_RETRIES /\ consumer.attempts = MAX_RETRIES + 1)

\* the loop gave up after the first call and three retries
C21_Witness ==
    /\ GaveUp(consumer)
    /\ consumer.apology = "apology_later"
    /\ consumer.attempts = MAX_RETRIES + 1
    /\ ~PhotoSent(consumer)

\* the calls of a run from position i on
CallsFrom(c, i) == SubSeq(c.calls, i, Len(c.calls))

\* C22: when the retry loop gives up, the run ends with the deletion of the
\* processing message followed by the apology of the loop, no photo is sent,
\* and the table is left as it was, without the entry of the prompt.
C22_Step ==
    (consumer.pc = "processing" /\ GaveUp(consumer'))
    => /\ Len(consumer'.calls) >= 2
       /\ CallsFrom(consumer', Len(consumer'.calls) - 1) =
            <<Call("delete_message", "processing", ProcessingId(Unwrap(consumer.matched).prompt), TRUE),
              Call("send_message", "apology_later", OtherId, consumer'.calls[Len(consumer'.calls)].ok)>>
       /\ ~HasCall(consumer'.calls, "send_photo", "photo")
       /\ delivered' = delivered
       /\ pending_overlays' = pending_overlays
       /\ PromptAbsent(pending_overlays', Unwrap(consumer.matched).prompt)

C22_GiveUpApologises == [][C22_Step]_vars

\* ----- prompts in flight
\* prompt p has been sent by an activation that has not written its entry yet
SentNotStored(p) ==
    \E h \in Activations :
        /\ handler[h].pc = "prompt_store"
        /\ handler[h].calls[Len(handler[h].calls)].id = p

\* the message replies to the prompt most recently sent to its sender
RepliesToLatest(m) ==
    /\ m.from # None
    /\ m.reply # None
    /\ SenderKey(m) \in DOMAIN prompted
    /\ prompted[SenderKey(m)] = Unwrap(m.reply)

\* C23: the consumer never examines a reply to a prompt that has been sent
\* and whose entry is not written yet; when the first job replies to the
\* prompt most recently sent to its sender, the consumer finds the entry of
\* that prompt and takes the reply as matching.
C23_Step ==
    (MatchStep /\ consumer.msg.reply # None)
    => /\ ~SentNotStored(Unwrap(consumer.msg.reply))
       /\ (dequeued = 1 /\ RepliesToLatest(consumer.msg))
            => /\ \E e \in pending_overlays :
                    e.key = SenderKey(consumer.msg) /\ e.prompt = Unwrap(consumer.msg.reply)
               /\ consumer'.outcome \in {"matched", "expired"}

C23_EntryBeforeMatch == [][C23_Step]_vars

\* the reply to prompt P is with the consumer while the activation that sent
\* P still holds the table and has not written the entry
C23_Witness ==
    /\ consumer.pc = "lock"
    /\ consumer.msg.reply # None
    /\ SentNotStored(Unwrap(consumer.msg.reply))
    /\ RepliesToLatest(consumer.msg)
    /\ lockOwner \in Activations

\* activation h has sent the prompt most recently sent to key k, holds the
\* table and is about to write the entry
Writing(h, k) ==
    /\ handler[h].pc = "prompt_store"
    /\ lockOwner = h
    /\ PendingKey(handler[h].msg) = k
    /\ handler[h].calls[Len(handler[h].calls)].id = prompted[k]

\* an entry holds the prompt most recently sent to its key, except while the
\* activation that sent that prompt holds the table between its send and its
\* write; one activation at a time is between send and write, and the prompt
\* it has sent is the latest one sent
C30_Latest ==
    /\ \A e \in pending_overlays :
        /\ e.key \in DOMAIN prompted
        /\ e.prompt # prompted[e.key] => \E h \in Activations : Writing(h, e.key)
    /\ \A h, g \in Activations :
        (handler[h].pc = "prompt_store" /\ handler[g].pc = "prompt_store") => h = g
    /\ \A h \in Activations :
        handler[h].pc = "prompt_store" => handler[h].calls[Len(handler[h].calls)].id = nextId - 1

\* every write stores the latest prompt sent, and no prompt is sent while a
\* sent prompt waits to be written
C30_Step ==
    /\ \A h \in Activations :
        (handler[h].pc = "prompt_store" /\ handler'[h].pc = "done")
        => /\ nextId' = nextId
           /\ \E e \in pending_overlays' :
                /\ e.key = PendingKey(handler[h].msg)
                /\ e.prompt = nextId - 1
                /\ e.prompt = prompted[e.key]
    /\ nextId' # nextId => \A h \in Activations : handler[h].pc # "prompt_store"

\* C30: with activations for the same key running together, whenever an
\* entry exists its prompt is the prompt most recently sent to its key (the
\* table being held by the sender of a newer prompt until it is written), and
\* prompts are written in the order in which they were sent.
C30_Linearized == []C30_Latest /\ [][C30_Step]_vars

\* two activations for the same sender ran together: one has written prompt
\* 2 over prompt 1 while the other, which sent prompt 1, has not returned
C30_Witness ==
    \E h, g \in Activations :
        /\ h # g
        /\ handler[h].msg.from = handler[g].msg.from
        /\ handler[h].pc = "done" /\ handler[g].pc = "done"
        /\ handler[h].calls # <<>> /\ handler[g].calls # <<>>
        /\ handler[h].calls[Len(handler[h].calls)].id = 1
        /\ handler[g].calls[Len(handler[g].calls)].id = 2
        /\ \E e \in pending_overlays : e.key = PendingKey(handler[g].msg) /\ e.prompt = 2

\* ----- failures in a sweeper pass
\* the entries the pass found expired when it took the lock
FoundExpired == SweepExpired(sweeper.before, sweeper.startedAt)

\* C24: whatever transport calls fail in a pass, when the pass returns every
\* entry it found expired is out of the table and the deletion of its prompt
\* has been attempted; and after a failure the sweeper gets back to the head
\* of its loop, from where the later passes start.
C24_PassDone ==
    sweeper.pc = "done"
    => /\ \A e \in FoundExpired :
            /\ e \notin pending_overlays
            /\ [key |-> e.key, prompt |-> e.prompt] \in sweeper.deleted
       /\ sweeper.expired = {}

C24_ErrorsDoNotAbort ==
    /\ []C24_PassDone
    /\ (sweeper.errors # {}) ~> (sweeper.pc = "sleep")

\* a pass over two expired entries has returned after a failure at the first
\* of them
C24_Witness ==
    /\ sweeper.pc = "done"
    /\ Cardinality(FoundExpired) = 2
    /\ \E e1, e2 \in FoundExpired :
        /\ e1 # e2
        /\ \E x \in sweeper.errors : x.key = e1.key
        /\ \A x \in sweeper.errors : x.key # e2.key

\* ----- overlay_image
\* the pixels of a raster of the given size
Grid(rows, cols) == (0..(rows - 1)) \X (0..(cols - 1))

\* C25: for a base with 3 or 4 channels, a successful overlay_image gives a
\* raster of the base's height and width with 4 channels; for a base with
\* any other channel count it gives the unsupported-format error.
C25_OutputShape ==
    compose.called
    => /\ (compose.base.channels \in {3, 4} /\ compose.result.ok)
            => /\ compose.result.mat.rows = compose.base.rows
               /\ compose.result.mat.cols = compose.base.cols
               /\ compose.result.mat.channels = 4
               /\ DOMAIN compose.result.mat.px = Grid(compose.base.rows, compose.base.cols)
               /\ \A p \in DOMAIN compose.result.mat.px : Len(compose.result.mat.px[p]) = 4
       /\ compose.base.channels \notin {3, 4}
            => (~compose.result.ok /\ compose.result.err = "StsUnsupportedFormat")

\* a 3-channel base of two rows taller than the resized overlay: the top row
\* keeps the base's colour and the bottom row is blended
C25_Witness ==
    /\ compose.called
    /\ compose.result.ok
    /\ compose.base.channels = 3
    /\ compose.base.rows = 2
    /\ compose.result.mat.px[<<0, 0>>] = <<BaseValue, BaseValue, BaseValue, 255>>
    /\ compose.result.mat.px[<<1, 0>>] # <<BaseValue, BaseValue, BaseValue, 255>>

\* C26: the result of overlay_image, raster or error, is the one the same
\* base and overlay give without a previous result.
C26_PreviousResultIgnored ==
    compose.called
    => compose.result = OverlayImage(compose.base, compose.overlay, compose.script, None)

\* a call with a previous result that succeeded with another raster
C26_Witness ==
    /\ compose.called
    /\ compose.previous_result # None
    /\ compose.result.ok
    /\ compose.result.mat # Unwrap(compose.previous_result)
    /\ compose.result.mat # compose.base

\* ----- one consultation for each command
\* the request count of bucket key, 0 when there is no bucket
BucketCount(l, key) == IF key \in DOMAIN l THEN l[key][2] ELSE 0

\* C27: an activation for /degenme consults the rate limiter once, when the
\* command is received: if it is admitted the count of its bucket goes up by
\* 1 or restarts at 1, if it is refused the buckets are unchanged; and no
\* later step of the activation changes a bucket.
C27_Step ==
    \A h \in Handlers :
        /\ (handler[h].pc = "idle" /\ handler'[h].pc # "idle" /\ IsDegenme(handler'[h].msg))
            => LET key == BucketKey(handler'[h].msg) IN
                IF handler'[h].pc = "notice_send" THEN limits' = limits
                ELSE /\ BucketCount(limits', key) \in {BucketCount(limits, key) + 1, 1}
                     /\ \A k \in DOMAIN limits : k # key => (k \in DOMAIN limits' /\ limits'[k] = limits[k])
        /\ (handler[h].pc # "idle" /\ handler'[h] # handler[h]) => limits' = limits

C27_ConsultedOnce == [][C27_Step]_vars

\* ----- replaced prompts
\* a delete_message of message p has been issued by an activation, by the
\* consumer's current job or in the sweeper's current pass
DeleteIssued(p) ==
    \/ \E h \in Activations : \E i \in DOMAIN handler[h].calls :
            handler[h].calls[i].op = "delete_message" /\ handler[h].calls[i].id = p
    \/ \E i \in DOMAIN consumer.calls :
            consumer.calls[i].op = "delete_message" /\ consumer.calls[i].id = p
    \/ \E d \in sweeper.deleted : d.prompt = p
    \/ sweeper.cur # None /\ Unwrap(sweeper.cur).prompt = p

\* C28: the prompt of an entry that was replaced is never the target of a
\* delete_message, neither when it is replaced nor later, whichever task
\* acts; the prompts the sweeper deletes are those stored in the entries its
\* pass found expired.
C28_OrphanNeverDeleted ==
    /\ \A o \in orphans : ~DeleteIssued(o.prompt)
    /\ \A d \in sweeper.deleted :
        \E e \in FoundExpired : e.key = d.key /\ e.prompt = d.prompt
    /\ sweeper.cur # None
        => \E e \in FoundExpired : e.key = Unwrap(sweeper.cur).key /\ e.prompt = Unwrap(sweeper.cur).prompt

\* prompt 1 was replaced by prompt 2, and a sweeper pass has expired the
\* entry of prompt 2 and deleted that prompt
C28_Witness ==
    /\ sweeper.pc = "done"
    /\ \E o \in orphans : [key |-> o.key, prompt |-> o.by] \in sweeper.deleted

\* ----- the preamble
\* the activation's send of the prompt returns
PromptStep(h) == handler[h].pc = "prompt_send" /\ handler'[h].pc # "prompt_send"

\* the table holds an entry of the sender of m
HasEntry(m) == m.from # None /\ Entries(pending_overlays, SenderKey(m)) # {}

\* C29: the prompt of an admitted /degenme is sent with the "Previous request
\* cancelled. " preamble exactly when the table holds an entry of the sender,
\* expired or not, at the time the command is handled.
C29_Step ==
    \A h \in Handlers :
        PromptStep(h)
        => LET sent == handler'[h].calls[Len(handler'[h].calls)] IN
            /\ sent.op = "send_message"
            /\ sent.what \in {"prompt", "prompt_cancelled"}
            /\ sent.what = "prompt_cancelled" <=> HasEntry(handler[h].msg)

C29_PreambleIffEntry == [][C29_Step]_vars

\* the prompt is about to go out with the preamble over an entry that is
\* older than OVERLAY_EXPIRATION
C29_Witness ==
    \E h \in Handlers :
        /\ handler[h].pc = "prompt_send"
        /\ handler[h].preamble
        /\ \E e \in Entries(pending_overlays, SenderKey(handler[h].msg)) :
                now - e.time > OVERLAY_EXPIRATION

\* ----- the end of an entry
\* the ways the entry of prompt p has come to its end
Enders(p) ==
    {x.by : x \in {y \in ended : y.prompt = p}}
    \cup {"replaced" : o \in {y \in orphans : y.prompt = p}}

\* no prompt's entry has ended in two ways, and an ended entry is out of the
\* table; what the consumer sends follows a removal by the consumer, what the
\* sweeper sends and deletes follows a removal by the sweeper
C31_OneEnder ==
    /\ \A p \in 1..(nextId - 1) :
        /\ Cardinality(Enders(p)) <= 1
        /\ Enders(p) # {} => PromptAbsent(pending_overlays, p)
    /\ \A p \in DOMAIN delivered : Enders(p) = {"photo"}
    /\ (consumer.matched # None /\ HasCall(consumer.calls, "send_photo", "photo"))
        => Enders(Unwrap(consumer.matched).prompt) = {"photo"}
    /\ (consumer.matched # None /\ HasCall(consumer.calls, "send_message", "expired"))
        => Enders(Unwrap(consumer.matched).prompt) = {"expired"}
    /\ sweeper.cur # None => Enders(Unwrap(sweeper.cur).prompt) = {"sweeper"}
    /\ \A d \in sweeper.deleted : Enders(d.prompt) = {"sweeper"}
    /\ \A r \in sweeper.reminded : \E d \in sweeper.deleted : d.key = r.key

\* an entry leaves the table only by one of the four ways
C31_Step == \A e \in pending_overlays \ pending_overlays' : Enders(e.prompt)' # {}

\* C31: the entry of a prompt is ended in one way only (a matching photo, an
\* expired match, the sweeper or a replacement), so the bot never sends both
\* the sweeper's reminder and a composed photo or expired notice for one
\* prompt, however the consumer and the sweeper interleave.
C31_EndedOnce == []C31_OneEnder /\ [][C31_Step]_vars

\* the sweeper took the entry of prompt P while the reply to P was waiting,
\* and the consumer has found nothing to match the reply with
C31_Witness ==
    /\ consumer.pc = "done"
    /\ consumer.outcome = "ignored"
    /\ RepliesToLatest(consumer.msg)
    /\ Enders(Unwrap(consumer.msg.reply)) = {"sweeper"}
    /\ \E r \in sweeper.reminded : r.key = SenderKey(consumer.msg)

\* ----- a prompt that could not be sent
\* C32: when the send of the prompt fails, the table is left as it was: no
\* entry is written, and an entry of the sender keeps its prompt and its time.
C32_Step ==
    \A h \in Handlers :
        (PromptStep(h) /\ ~handler'[h].calls[Len(handler'[h].calls)].ok)
        => /\ pending_overlays' = pending_overlays
           /\ orphans' = orphans
           /\ nextId' = nextId
           /\ handler'[h].pc = "done"

C32_FailedSendKeepsTable == [][C32_Step]_vars

\* the send of a second prompt has failed and the sender's older entry is
\* still in the table
C32_Witness ==
    \E h \in Handlers :
        /\ handler[h].pc = "done"
        /\ handler[h].calls # <<>>
        /\ handler[h].calls[Len(handler[h].calls)].what = "prompt_cancelled"
        /\ ~handler[h].calls[Len(handler[h].calls)].ok
        /\ \E e \in Entries(pending_overlays, SenderKey(handler[h].msg)) :
                e.time < now /\ e.prompt = nextId - 1

\* ----- the life of an entry ends
\* the entry of prompt p is in the table and older than OVERLAY_EXPIRATION
Overdue(p) == \E e \in pending_overlays : e.prompt = p /\ now - e.time > OVERLAY_EXPIRATION

\* a pass that has returned has left no entry that was older than
\* OVERLAY_EXPIRATION when the pass started
C33_FirstPass ==
    sweeper.pc = "done"
    => \A e \in pending_overlays : ~(sweeper.startedAt - e.time > OVERLAY_EXPIRATION)

\* C33: an entry does not stay for ever: once it is older than
\* OVERLAY_EXPIRATION (and whether or not a photo ever answers its prompt) it
\* leaves the table, at the latest in the first sweeper pass that starts from
\* then on, given that the sweeper keeps running and transport calls return.
C33_EntryLeaves ==
    /\ []C33_FirstPass
    /\ \A p \in 1..MaxPrompts : Overdue(p) ~> PromptAbsent(pending_overlays, p)

\* a pass has taken an entry that no photo answered, and its sender is left
\* without an entry
C33_Witness ==
    /\ sweeper.pc = "done"
    /\ \E e \in FoundExpired :
        /\ e \notin pending_overlays
        /\ Entries(pending_overlays, e.key) = {}
        /\ Enders(e.prompt) = {"sweeper"}

\* ----- the consumer loop
\* the processing of the n-th job taken from the queue has returned
Processed(n) == dequeued > n \/ (dequeued = n /\ consumer.pc \in {"done", "idle"})

\* a job is taken only by a consumer that has nothing in hand, the queue loses
\* nothing while a job is in hand, and from the return of process_image the
\* loop goes back to its head whatever was returned
C34_Step ==
    /\ dequeued' # dequeued
        => /\ consumer.pc = "idle"
           /\ consumer'.pc = "lock"
           /\ dequeued' = dequeued + 1
           /\ Processed(dequeued)
    /\ consumer.pc # "idle"
        => \/ message_queue' = message_queue
           \/ \E m \in {handler'[h].msg : h \in Handlers} : message_queue' = Append(message_queue, m)
    /\ (consumer.pc = "done" /\ consumer' # consumer) => consumer' = IdleConsumer

\* C34: the consumer has one job in hand at a time (the next job is taken
\* only after the processing of the current one has returned), it goes on
\* after a processing that returned an error, and, the consumer being
\* scheduled and transport calls returning, every enqueued job is taken and
\* its processing returns.
C34_OneAtATime ==
    /\ [][C34_Step]_vars
    /\ (consumer.pc = "done" /\ consumer.ret = "err") ~> (consumer.pc = "idle")
    /\ \A n \in 1..MaxReplies : (photos >= n) ~> Processed(n)

\* the processing of the first job has returned an error while a second job
\* waits in the queue
C34_Witness ==
    /\ consumer.pc = "done"
    /\ consumer.ret = "err"
    /\ dequeued = 1
    /\ Len(message_queue) = 1

\* ----- a reply that waited in the queue
\* the age the entry m replies to had when m was enqueued
ArrivalAge(m) ==
    consumer.arrived
    - (CHOOSE e \in pending_overlays : e.key = SenderKey(m) /\ e.prompt = Unwrap(m.reply)).time

\* a reply that came in while its entry was live and is examined when the
\* entry is older than OVERLAY_EXPIRATION is taken as expired, and what follows
\* is the one send of the expired notice; a reply whose entry the sweeper has
\* taken is ignored without any call
C35_Step ==
    /\ (/\ MatchStep
        /\ StoredReply(consumer.msg)
        /\ ArrivalAge(consumer.msg) <= OVERLAY_EXPIRATION
        /\ ReplyAge(consumer.msg) > OVERLAY_EXPIRATION)
        => /\ consumer'.outcome = "expired"
           /\ consumer'.pc = "expired_send"
           /\ consumer'.calls = <<>>
           /\ delivered' = delivered
           /\ PromptAbsent(pending_overlays', Unwrap(consumer.msg.reply))
    /\ (consumer.pc = "expired_send" /\ consumer' # consumer)
        => /\ consumer'.pc = "done"
           /\ \E ok \in BOOLEAN :
                consumer'.calls = <<Call("send_message", "expired", OtherId, ok)>>
    /\ (MatchStep /\ consumer.msg.reply # None /\ "sweeper" \in Enders(Unwrap(consumer.msg.reply)))
        => Ignored

\* C35: whether a matching reply is expired is decided from the entry's age
\* when the job is processed, not when it was enqueued: a reply enqueued while
\* the entry was no older than OVERLAY_EXPIRATION and processed when it is
\* older is not composed; it gets the expired notice when the entry is still
\* in the table, and no message at all when the sweeper has taken the entry.
C35_JudgedAtProcessing == [][C35_Step]_vars

\* a reply that came in while its entry was live has got the expired notice
C35_Witness ==
    /\ consumer.pc = "done"
    /\ consumer.outcome = "expired"
    /\ consumer.arrived - Unwrap(consumer.matched).time <= OVERLAY_EXPIRATION
    /\ consumer.age > OVERLAY_EXPIRATION
    /\ consumer.calls = <<Call("send_message", "expired", OtherId, TRUE)>>

\* ----- where the overlay lands
\* the base as overlay_image starts from it: in 4 channels
BgraBase(base) == IF base.channels = 3 THEN CvtColorBGR2BGRA(base) ELSE base

\* max(0, H - h)
RowOffset(H, h) == IF H - h > 0 THEN H - h ELSE 0

\* the rows of the result that differ from the base
WrittenRows ==
    {y \in 0..(compose.base.rows - 1) :
        \E x \in 0..(compose.base.cols - 1) :
            compose.result.mat.px[<<y, x>>] # BgraBase(compose.base).px[<<y, x>>]}

\* C36: with H the height of the base and h the height of the resized
\* overlay, the overlay's rows 0 .. min(h, H) - 1 are blended onto the rows
\* of the result from max(0, H - h) on, row for row, and nothing else is
\* written: the bottom edges meet when h <= H, the overlay starts at row 0
\* and loses its rows from H on when h > H, and every written row is a row
\* 0 .. H - 1 of the result.
C36_OverlayRows ==
    (compose.called /\ compose.result.ok)
    => LET H == compose.base.rows
           W == compose.base.cols
           h == NewHeight(W, compose.overlay)
           off == RowOffset(H, h)
           n == Min(h, H)
           bgra == BgraBase(compose.base)
           res == compose.result.mat IN
        /\ DOMAIN res.px = Grid(H, W)
        /\ \A p \in Grid(H, W) :
            res.px[p] = IF /\ p[1] >= off
                           /\ p[1] < off + n
                           /\ compose.script[p[1] - off] > 0
                        THEN BlendPixel(bgra.px[p], <<OverlayValue, OverlayValue, OverlayValue,
                                                      compose.script[p[1] - off]>>)
                        ELSE bgra.px[p]
        /\ WrittenRows \subseteq off..(off + n - 1)
        /\ h <= H => off + h = H
        /\ h > H => (off = 0 /\ n = H)

\* an overlay resized to more rows than the base has: its first rows are
\* blended from row 0 on, each with its own alpha, and its last row, though
\* visible, is dropped
C36_Witness ==
    /\ compose.called
    /\ compose.result.ok
    /\ compose.base.rows = 2
    /\ NewHeight(compose.base.cols, compose.overlay) > 2
    /\ compose.script[0] = 128
    /\ compose.script[1] = 255
    /\ compose.script[NewHeight(compose.base.cols, compose.overlay) - 1] = 255
    /\ WrittenRows = {0, 1}
    /\ compose.result.mat.px[<<0, 0>>] # compose.result.mat.px[<<1, 0>>]

====
